---- MODULE Spec2Model ----
(***************************************************************************)
(* A state-machine model of the prediction-market program: one Market      *)
(* account, the global Config, the LP positions, the token accounts and    *)
(* the clock.  Every instruction is one atomic action (the runtime reverts *)
(* all account writes of a failed instruction).  The variable `last`       *)
(* records the most recent instruction attempt: its arguments, its result  *)
(* code, a snapshot of the market before it, and the in-memory values the  *)
(* handler held when it returned.                                          *)
(***************************************************************************)
EXTENDS Integers, Sequences, FiniteSets, TLC

\* ------------------------------------------------------------------------
\* Integer helpers
\* ------------------------------------------------------------------------
Min(a, b) == IF a < b THEN a ELSE b

Max(a, b) == IF a > b THEN a ELSE b

Abs(a) == IF a < 0 THEN 0 - a ELSE a

\* checked_sub(..).unwrap_or(0) / saturating_sub
SatSub(a, b) == IF a >= b THEN a - b ELSE 0

\* F at the value of v: a local `let v = ...;` whose value is computed once
\* and then used by the rest of the block.
Bind(v, F(_)) == CHOOSE r \in {F(x) : x \in {v}} : TRUE

\* Largest value the model checker's integers carry.
IntLimit == 2 * (2^30 - 1) + 1

\* <<quotient, remainder>> of a*b by c for 0 <= a < c, by binary long
\* multiplication: no intermediate value exceeds 3*c.
RECURSIVE MulDivR(_, _, _)
MulDivR(a, b, c) ==
    IF b = 0 THEN <<0, 0>>
    ELSE LET h  == MulDivR(a, b \div 2, c)
             r3 == 2 * h[2] + (IF b % 2 = 1 THEN a ELSE 0)
         IN  <<2 * h[1] + (r3 \div c), r3 % c>>

\* floor(a*b/c): the u128 `checked_mul(..).checked_div(..)` chains of the
\* program, evaluated without leaving the model checker's integer range.
MulDiv(a, b, c) ==
    IF b = 0 \/ a <= IntLimit \div b THEN (a * b) \div c
    ELSE (a \div c) * b + MulDivR(a % c, b, c)[1]

\* ------------------------------------------------------------------------
\* Fixed point (fixed_point.rs).  The program carries Q64.64; the model
\* carries the same algorithms at FP_BITS fractional bits.
\* ------------------------------------------------------------------------
FP_BITS == 12

ONE == 2^FP_BITS

TWO == 2 * ONE

LN_2 == MulDiv(693147, ONE, 1000000)

fp_mul(a, b) == MulDiv(a, b, ONE)

fp_div(a, b) == MulDiv(a, ONE, b)

from_u64(x) == x * ONE

to_u64(x) == x \div ONE

\* The Taylor loop of fp_exp: term = term*r, result += term/i!, and it stops
\* once the added term is below the least significant digits.
RECURSIVE ExpTaylor(_, _, _, _, _)
ExpTaylor(r, i, term, factorial, result) ==
    IF i > 15 THEN result
    ELSE Bind(fp_mul(term, r), LAMBDA t :
         LET f  == factorial * i
             td == t \div f
         IN  IF td < 1 THEN result + td
             ELSE ExpTaylor(r, i + 1, t, f, result + td))

\* exp(x) = 2^n * exp(r) with n = x / LN_2, r = x - n*LN_2.
fp_exp(x) ==
    IF x = 0 THEN ONE
    ELSE LET n == x \div LN_2
             r == x - n * LN_2
         IN  ExpTaylor(r, 1, ONE, 1, ONE) * 2^n

\* Normalisation of fp_ln: <<normalized, exponent>> with normalized in [1,2).
RECURSIVE LnNormalize(_, _)
LnNormalize(normalized, exponent) ==
    IF normalized < ONE THEN LnNormalize(normalized * 2, exponent - 1)
    ELSE IF normalized >= TWO THEN LnNormalize(normalized \div 2, exponent + 1)
    ELSE <<normalized, exponent>>

\* ln(1+y) = y - y^2/2 + y^3/3 - ... up to the 10th power.
RECURSIVE LnSeries(_, _, _, _)
LnSeries(y, i, term, result) ==
    IF i > 10 THEN result
    ELSE Bind(fp_mul(term, y), LAMBDA t :
         LET td == t \div i
         IN  LnSeries(y, i + 1, t,
                      IF i % 2 = 0 THEN result - td ELSE result + td))

fp_ln(x) ==
    Bind(LnNormalize(x, 0), LAMBDA nz :
    Bind(nz[1] - ONE, LAMBDA y :
    Bind(LnSeries(y, 2, y, y), LAMBDA s :
        IF nz[2] >= 0 THEN s + LN_2 * nz[2]
        ELSE s - LN_2 * (0 - nz[2]))))

\* ln(1 + 1/exp(diff)), the shared tail of fp_log_sum_exp and lmsr_cost.
LnOnePlusExpNeg(diff) ==
    fp_ln(ONE + fp_div(ONE, fp_exp(diff)))

fp_log_sum_exp(a, b) ==
    LET max_val == IF a > b THEN a ELSE b
        diff    == IF a > b THEN a - b ELSE b - a
    IN  IF diff < from_u64(20) THEN max_val + LnOnePlusExpNeg(diff)
        ELSE max_val

\* ------------------------------------------------------------------------
\* LMSR (math/lmsr.rs).  Positions q are signed; b is the depth parameter.
\* The range checks against MAX_B_PARAM (10^12) and MAX_POSITION (10^15)
\* cannot fail for the magnitudes carried here and are not repeated.
\* ------------------------------------------------------------------------
MAX_ITERATIONS == 50

CONVERGENCE_THRESHOLD == 100000

MIN_COST_DIVISOR == 100

\* fp_div(from_u64(|q|), from_u64(b))
QOverB(q, b) == MulDiv(Abs(q), ONE, b)

\* fp_div(ONE, fp_exp(d)) when d < 20, else the substitute 0.
ExpNegOrZero(d) == IF d < from_u64(20) THEN fp_div(ONE, fp_exp(d)) ELSE 0

\* ln(exp(q_yes/b) + exp(q_no/b)) of lmsr_cost, by the sign of the positions.
LmsrLogSum(b, q_yes, q_no) ==
    Bind(QOverB(q_yes, b), LAMBDA yb :
    Bind(QOverB(q_no, b), LAMBDA nb :
        IF q_yes >= 0 /\ q_no >= 0 THEN fp_log_sum_exp(yb, nb)
        ELSE IF q_yes < 0 /\ q_no < 0 THEN
            Bind(IF Abs(q_yes) < Abs(q_no) THEN yb ELSE nb, LAMBDA min_abs :
            Bind(IF Abs(q_yes) < Abs(q_no) THEN nb ELSE yb, LAMBDA max_abs :
            Bind(max_abs - min_abs, LAMBDA diff :
                IF diff < from_u64(20)
                THEN Bind(LnOnePlusExpNeg(diff), LAMBDA ln_term :
                         IF ln_term >= max_abs THEN ln_term - max_abs ELSE 0)
                ELSE 0)))
        ELSE
            Bind(IF q_yes >= 0 THEN yb ELSE nb, LAMBDA pos_val :
            Bind(IF q_yes < 0 THEN yb ELSE nb, LAMBDA neg_val :
                IF pos_val >= neg_val
                THEN pos_val + fp_ln(ONE + ExpNegOrZero(pos_val + neg_val))
                ELSE Bind(fp_ln(ONE + ExpNegOrZero(neg_val - pos_val)),
                          LAMBDA ln_term :
                         IF ln_term >= neg_val THEN ln_term - neg_val ELSE 0)))))

\* C(q) = to_u64(fp_mul(from_u64(b), log_sum))
lmsr_cost(b, q_yes, q_no) == MulDiv(b, LmsrLogSum(b, q_yes, q_no), ONE)

\* Marginal YES price exp(q_yes/b) / (exp(q_yes/b) + exp(q_no/b)), as fixed point.
lmsr_marginal_price(b, q_yes, q_no) ==
    Bind(fp_exp(QOverB(q_yes, b)), LAMBDA ey0 :
    Bind(fp_exp(QOverB(q_no, b)), LAMBDA en0 :
    Bind(IF q_yes >= 0 THEN ey0 ELSE fp_div(ONE, ey0), LAMBDA exp_yes :
    Bind(IF q_no >= 0 THEN en0 ELSE fp_div(ONE, en0), LAMBDA exp_no :
        fp_div(exp_yes, exp_yes + exp_no)))))

\* The fallback of lmsr_buy_cost / lmsr_sell_payout: amount * marginal price.
EstimatedByPrice(b, q_yes, q_no, amount) ==
    Max(MulDiv(amount, lmsr_marginal_price(b, q_yes, q_no), ONE), 1)

lmsr_buy_cost(b, q_yes, q_no, amount, is_yes) ==
    Bind(lmsr_cost(b, q_yes, q_no), LAMBDA cost_before :
    Bind(lmsr_cost(b, IF is_yes THEN q_yes + amount ELSE q_yes,
                      IF is_yes THEN q_no ELSE q_no + amount),
         LAMBDA cost_after :
        Max(IF cost_after >= cost_before THEN cost_after - cost_before
            ELSE EstimatedByPrice(b, q_yes, q_no, amount), 1)))

lmsr_sell_payout(b, q_yes, q_no, amount, is_yes) ==
    Bind(lmsr_cost(b, q_yes, q_no), LAMBDA cost_before :
    Bind(lmsr_cost(b, IF is_yes THEN q_yes - amount ELSE q_yes,
                      IF is_yes THEN q_no ELSE q_no - amount),
         LAMBDA cost_after :
        Max(IF cost_before >= cost_after THEN cost_before - cost_after
            ELSE EstimatedByPrice(b, q_yes, q_no, amount), 1)))

\* Upper bound of the search: usdc / price * 1.5, or usdc * 150 when the
\* price is below 1 / MIN_COST_DIVISOR.
EstimatedUpperBound(b, q_yes, q_no, usdc_amount) ==
    Bind(lmsr_marginal_price(b, q_yes, q_no), LAMBDA price_fp :
        LET min_reasonable_price == fp_div(from_u64(1), from_u64(MIN_COST_DIVISOR))
            tokens_estimate == MulDiv(from_u64(usdc_amount), ONE, price_fp)
        IN  IF price_fp >= min_reasonable_price
            THEN MulDiv(tokens_estimate, 15, 10 * ONE)
            ELSE usdc_amount * 150)

\* The convergence test of the bisection: the remaining USDC is below the
\* threshold.
Converged(usdc_amount, cost) == usdc_amount - cost < CONVERGENCE_THRESHOLD

\* The while loop of lmsr_tokens_for_usdc.
RECURSIVE TokensBisect(_, _, _, _, _, _, _, _)
TokensBisect(b, q_yes, q_no, usdc_amount, is_yes, low, high, iterations) ==
    IF ~(low < high /\ iterations < MAX_ITERATIONS) THEN low
    ELSE Bind((low + high) \div 2, LAMBDA mid :
         Bind(lmsr_buy_cost(b, q_yes, q_no, mid, is_yes), LAMBDA cost :
             IF cost > usdc_amount
             THEN TokensBisect(b, q_yes, q_no, usdc_amount, is_yes,
                               low, mid, iterations + 1)
             ELSE IF Converged(usdc_amount, cost) THEN mid
             ELSE TokensBisect(b, q_yes, q_no, usdc_amount, is_yes,
                               mid + 1, high, iterations + 1)))

lmsr_tokens_for_usdc(b, q_yes, q_no, usdc_amount, is_yes) ==
    TokensBisect(b, q_yes, q_no, usdc_amount, is_yes, 0,
                 EstimatedUpperBound(b, q_yes, q_no, usdc_amount), 0)

\* ------------------------------------------------------------------------
\* Program constants (constants.rs) and clock conventions
\* ------------------------------------------------------------------------
BASIS_POINTS_DIVISOR == 10000

MAX_POSITION_IMBALANCE_MULTIPLIER == 2

MAX_SINGLE_TRADE_BPS == 1000

NORMAL_STAGE_B_MULTIPLIER == 10000

MID_STAGE_B_MULTIPLIER == 12000

FINAL_STAGE_B_MULTIPLIER == 15000

MID_STAGE_SECONDS == 604800

FINAL_STAGE_SECONDS == 259200

MIN_LIQUIDITY == 1000

\* The program scales the per-share fee accumulator by 10^18; the model
\* carries FEE_PRECISION_DIGITS decimal digits.
FEE_PRECISION_DIGITS == 6

FEE_PER_SHARE_PRECISION == 10^FEE_PRECISION_DIGITS

BALANCED_MAX_WITHDRAW_BPS == 3000

MILD_IMBALANCE_MAX_WITHDRAW_BPS == 2000

MODERATE_IMBALANCE_MAX_WITHDRAW_BPS == 1000

HIGH_IMBALANCE_MAX_WITHDRAW_BPS == 500

IMBALANCE_RATIO_MILD == 150

IMBALANCE_RATIO_MODERATE == 200

IMBALANCE_RATIO_HIGH == 300

EARLY_EXIT_PENALTY_7D == 300

EARLY_EXIT_PENALTY_14D == 200

EARLY_EXIT_PENALTY_30D == 100

CIRCUIT_BREAKER_RATIO == 4

CIRCUIT_BREAKER_MIN_RESERVE_BPS == 1000

CIRCUIT_BREAKER_WITHDRAW_24H_BPS == 5000

\* ------------------------------------------------------------------------
\* State
\* ------------------------------------------------------------------------
VARIABLES
    market,   \* the Market account
    config,   \* the global Config account
    lp,       \* the LPPosition account of every user
    bal,      \* token accounts: user USDC/YES/NO, market vault, pool ATAs, team
    slot,     \* Clock::slot
    last,     \* the most recent instruction attempt
    prev,     \* the attempt before it, kept when it was a successful mint
    steps,    \* number of instructions executed successfully
    rejected  \* number of instructions rejected

vars == <<market, config, lp, bal, slot, last, prev, steps, rejected>>

\* Number of successful instructions a behaviour performs.
MaxSteps == 4

\* A behaviour ends at its MaxRejected-th rejected instruction.  A rejected
\* instruction is reverted by the runtime, so it leaves every account as it
\* found it.
MaxRejected == 1

Users == {"alice", "bob"}

\* alice is Config.authority and the market creator.
Authority == "alice"

\* Clock points the behaviours visit: far from settlement, inside the last
\* 7 days, inside the last 72 hours, and at the ending slot.
SlotPoints == {0, 1000000, 1500000, 2000000}

\* Clock::unix_timestamp, at the 0.4 seconds per slot the program assumes.
Now(s) == (s * 4) \div 10

Market0 ==
    [ is_completed |-> FALSE, pool_settled |-> FALSE, market_paused |-> FALSE,
      winner_token_type |-> 0, resolution_yes_ratio |-> 0,
      resolution_no_ratio |-> 0,
      total_collateral_locked |-> 0, total_yes_minted |-> 0,
      total_no_minted |-> 0,
      pool_collateral_reserve |-> 0, pool_yes_reserve |-> 0,
      pool_no_reserve |-> 0, total_lp_shares |-> 0,
      accumulated_lp_fees |-> 0, fee_per_share_cumulative |-> 0,
      lmsr_b |-> 1000, lmsr_q_yes |-> 0, lmsr_q_no |-> 0,
      token_yes_total_supply |-> 0, token_no_total_supply |-> 0,
      swap_in_progress |-> FALSE, add_liquidity_in_progress |-> FALSE,
      withdraw_in_progress |-> FALSE, claim_in_progress |-> FALSE,
      insurance_pool_contribution |-> 0,
      circuit_breaker_active |-> FALSE, circuit_breaker_triggered_at |-> 0,
      withdraw_last_24h |-> 0, withdraw_tracking_start |-> 0,
      initial_yes_reserve |-> 0, initial_no_reserve |-> 0,
      initial_yes_prob |-> 5000, sentinel_no_minted |-> TRUE,
      start_slot |-> 0, ending_slot |-> 2000000 ]

Config0 ==
    [ is_paused |-> FALSE,
      platform_buy_fee |-> 200, platform_sell_fee |-> 200,
      lp_buy_fee |-> 100, lp_sell_fee |-> 100,
      min_usdc_liquidity |-> 2000, min_trading_liquidity |-> 1000,
      usdc_vault_min_balance |-> 0,
      lp_insurance_pool_balance |-> 0, lp_insurance_allocation_bps |-> 2000,
      insurance_loss_threshold_bps |-> 1000,
      insurance_max_compensation_bps |-> 5000,
      insurance_pool_enabled |-> TRUE ]

LPPosition0 ==
    [ lp_shares |-> 0, last_fee_per_share |-> 0, invested_usdc |-> 0,
      created_at |-> 0, last_add_at |-> 0 ]

Bal0 ==
    [ usdc |-> [u \in Users |-> 30000], yes |-> [u \in Users |-> 0],
      no |-> [u \in Users |-> 0],
      vault |-> 0, global_yes |-> 0, global_no |-> 1, team |-> 0,
      mint_authority |-> "global_vault" ]

\* The four reentrancy flags and lmsr_b as a handler holds them in memory.
ExitOf(m) ==
    [ swap_in_progress |-> m.swap_in_progress,
      add_liquidity_in_progress |-> m.add_liquidity_in_progress,
      withdraw_in_progress |-> m.withdraw_in_progress,
      claim_in_progress |-> m.claim_in_progress,
      lmsr_b |-> m.lmsr_b ]

NoAttempt ==
    [ op |-> "none", err |-> "none", args |-> <<>>, pre |-> Market0,
      pre_bal |-> Bal0, pre_slot |-> 0, exit |-> ExitOf(Market0) ]

Init ==
    /\ market = Market0
    /\ config = Config0
    /\ lp = [u \in Users |-> LPPosition0]
    /\ bal = Bal0
    /\ slot = 0
    /\ last = NoAttempt
    /\ prev = NoAttempt
    /\ steps = 0
    /\ rejected = 0

\* ------------------------------------------------------------------------
\* Instruction results.  A handler yields the error code (or "Ok"), the
\* accounts it would commit, and the market as it stood in memory when the
\* handler returned (after the RAII guards dropped).
\* ------------------------------------------------------------------------
Fail(e, exit_market) ==
    [ err |-> e, market |-> market, config |-> config, lp |-> lp,
      bal |-> bal, mem |-> exit_market ]

Done(m, c, l, b) ==
    [ err |-> "Ok", market |-> m, config |-> c, lp |-> l, bal |-> b,
      mem |-> m ]

\* The runtime commits the accounts of a successful instruction and reverts
\* those of a failed one; `last` records the attempt either way.
Commit(op, args, r) ==
    /\ rejected < MaxRejected
    /\ market' = r.market
    /\ config' = r.config
    /\ lp' = r.lp
    /\ bal' = r.bal
    /\ last' = [ op |-> op, err |-> r.err, args |-> args, pre |-> market,
                 pre_bal |-> bal, pre_slot |-> slot,
                 exit |-> ExitOf(r.mem) ]
    /\ prev' = IF last.op = "mint_complete_set" /\ last.err = "Ok"
               THEN last ELSE NoAttempt
    /\ steps' = IF r.err = "Ok" THEN steps + 1 ELSE steps
    /\ rejected' = IF r.err = "Ok" THEN rejected ELSE rejected + 1
    /\ UNCHANGED slot

\* utils.rs ReentrancyGuard: new() refuses a set flag and sets it; Drop
\* clears it on every exit path.
ReentrancyUnchecked(m, flag) == FALSE

ReentrancyHeld(m, flag) == m[flag]

ReentrancyGuardNew(m, flag) == [m EXCEPT ![flag] = TRUE]

ReentrancyGuardLeak(m, flag) == m

ReentrancyGuardDrop(m, flag) == [m EXCEPT ![flag] = FALSE]

\* MultiReentrancyGuard (utils.rs): new first checks every requested flag,
\* then sets them all; drop clears the flags the guard recorded.
MultiFirstHeld(m, flags) ==
    flags # {} /\ m[CHOOSE f \in flags : TRUE]

MultiHeld(m, flags) == \E f \in flags : m[f]

MultiReentrancyGuardNew(m, flags) ==
    [f \in DOMAIN m |-> IF f \in flags THEN TRUE ELSE m[f]]

MultiReentrancyGuardDrop(m, flags) ==
    [f \in DOMAIN m |-> IF f \in flags THEN FALSE ELSE m[f]]

\* A handler body run under a guard: the guard drops when the handler
\* returns, before the accounts are written back.
Guarded(r, flag) ==
    [r EXCEPT !.mem = ReentrancyGuardDrop(@, flag),
              !.market = IF r.err = "Ok" THEN ReentrancyGuardDrop(@, flag)
                         ELSE @]

\* SPL token transfer user -> vault: fails in the token program when the
\* source holds less than the amount.
UsdcIn(b, u, amount) ==
    [b EXCEPT !.usdc[u] = @ - amount, !.vault = @ + amount]

UsdcOut(b, u, amount) ==
    [b EXCEPT !.usdc[u] = @ + amount, !.vault = @ - amount]

\* ------------------------------------------------------------------------
\* seed_pool (seed_pool.rs)
\* ------------------------------------------------------------------------
\* The ledger writes of seed_pool: pool ledger set to the seed, settlement
\* ledger and supply counters increased by it, all shares to the seeder.
SeedPoolUnrecorded(m, usdc_amount) == m

SeedPoolLedger(m, usdc_amount) ==
    [m EXCEPT !.pool_collateral_reserve = usdc_amount,
              !.pool_yes_reserve = usdc_amount,
              !.pool_no_reserve = usdc_amount,
              !.total_collateral_locked = @ + usdc_amount,
              !.total_yes_minted = @ + usdc_amount,
              !.total_no_minted = @ + usdc_amount,
              !.token_yes_total_supply = @ + usdc_amount,
              !.token_no_total_supply = @ + usdc_amount,
              !.total_lp_shares = usdc_amount]

SeedPoolPosition(pos, m, usdc_amount, now) ==
    [pos EXCEPT !.lp_shares = usdc_amount,
                !.invested_usdc = usdc_amount,
                !.last_fee_per_share =
                    IF pos.lp_shares = 0 THEN m.fee_per_share_cumulative ELSE @,
                !.created_at = now, !.last_add_at = now]

SeedPoolResult(seeder, usdc_amount) ==
    IF market.is_completed THEN Fail("CurveAlreadyCompleted", market)
    ELSE IF market.pool_collateral_reserve # 0
        THEN Fail("PoolAlreadySeeded", market)
    ELSE IF seeder # Authority THEN Fail("IncorrectAuthority", market)
    ELSE IF config.is_paused THEN Fail("ContractPaused", market)
    ELSE IF ~(usdc_amount > 0) THEN Fail("InvalidAmount", market)
    ELSE IF ~(usdc_amount >= config.min_usdc_liquidity)
        THEN Fail("ValueTooSmall", market)
    ELSE IF market.total_lp_shares # 0 THEN Fail("PoolAlreadySeeded", market)
    ELSE IF bal.usdc[seeder] < usdc_amount
        THEN Fail("TokenInsufficientFunds", market)
    ELSE Done(SeedPoolLedger(market, usdc_amount), config,
              [lp EXCEPT ![seeder] =
                  SeedPoolPosition(@, market, usdc_amount, Now(slot))],
              [UsdcIn(bal, seeder, usdc_amount) EXCEPT
                  !.global_yes = @ + usdc_amount,
                  !.global_no = @ + usdc_amount])

seed_pool(seeder, usdc_amount) ==
    /\ steps < MaxSteps
    /\ Commit("seed_pool", <<seeder, usdc_amount>>,
              SeedPoolResult(seeder, usdc_amount))

\* ------------------------------------------------------------------------
\* mint_complete_set / redeem_complete_set
\* ------------------------------------------------------------------------
\* The settlement-ledger writes of a mint and of a redemption of `amount`
\* complete sets.
MintLedger(m, amount) ==
    [m EXCEPT !.total_collateral_locked = @ + amount,
              !.total_yes_minted = @ + amount,
              !.total_no_minted = @ + amount,
              !.token_yes_total_supply = @ + amount,
              !.token_no_total_supply = @ + amount]

RedeemLedgerKeepsLocked(m, amount) ==
    [m EXCEPT !.total_yes_minted = @ - amount,
              !.total_no_minted = @ - amount,
              !.token_yes_total_supply = @ - amount,
              !.token_no_total_supply = @ - amount]

RedeemLedger(m, amount) ==
    [m EXCEPT !.total_collateral_locked = @ - amount,
              !.total_yes_minted = @ - amount,
              !.total_no_minted = @ - amount,
              !.token_yes_total_supply = @ - amount,
              !.token_no_total_supply = @ - amount]

MintCompleteSetResult(user, amount) ==
    IF config.is_paused THEN Fail("ContractPaused", market)
    ELSE IF ~(amount > 0) THEN Fail("InvalidAmount", market)
    ELSE IF market.is_completed THEN Fail("CurveAlreadyCompleted", market)
    ELSE IF bal.usdc[user] < amount
        THEN Fail("TokenInsufficientFunds", market)
    ELSE Done(MintLedger(market, amount), config, lp,
              [UsdcIn(bal, user, amount) EXCEPT !.yes[user] = @ + amount,
                                                !.no[user] = @ + amount])

mint_complete_set(user, amount) ==
    /\ steps < MaxSteps
    /\ Commit("mint_complete_set", <<user, amount>>,
              MintCompleteSetResult(user, amount))

\* The completed-market gate of redeem_complete_set.
RedeemGateOpen(m) == FALSE

RedeemBlocked(m) == m.is_completed

RedeemCompleteSetResult(user, amount) ==
    IF ~(amount > 0) THEN Fail("InvalidAmount", market)
    ELSE IF RedeemBlocked(market) THEN Fail("CurveAlreadyCompleted", market)
    ELSE IF config.is_paused THEN Fail("ContractPaused", market)
    ELSE IF ~(bal.yes[user] >= amount) THEN Fail("InsufficientBalance", market)
    ELSE IF ~(bal.no[user] >= amount) THEN Fail("InsufficientBalance", market)
    ELSE IF ~(market.total_collateral_locked >= amount)
        THEN Fail("InsufficientLiquidity", market)
    ELSE IF ~(bal.vault >= amount) THEN Fail("InsufficientLiquidity", market)
    ELSE IF market.total_yes_minted < amount \/ market.total_no_minted < amount
        THEN Fail("MathOverflow", market)
    ELSE IF market.token_yes_total_supply < amount
             \/ market.token_no_total_supply < amount
        THEN Fail("InsufficientBalance", market)
    ELSE Done(RedeemLedger(market, amount), config, lp,
              [UsdcOut(bal, user, amount) EXCEPT !.yes[user] = @ - amount,
                                                 !.no[user] = @ - amount])

redeem_complete_set(user, amount) ==
    /\ steps < MaxSteps
    /\ Commit("redeem_complete_set", <<user, amount>>,
              RedeemCompleteSetResult(user, amount))

\* ------------------------------------------------------------------------
\* resolution (resolution.rs)
\* ------------------------------------------------------------------------
\* The completion write of resolution: the caller's is_completed argument
\* decides whether the market is marked completed.
ResolutionMarkAlways(m, is_completed) == [m EXCEPT !.is_completed = TRUE]

ResolutionMark(m, is_completed) ==
    IF is_completed THEN [m EXCEPT !.is_completed = TRUE] ELSE m

\* The ratio checks per outcome: 0 = NO wins, 1 = YES wins, 2 = draw.
ResolutionRatioError(yes_amount, no_amount, token_type) ==
    IF token_type = 0 THEN
        IF no_amount # BASIS_POINTS_DIVISOR THEN "RESOLUTIONNOAMOUNTERROR"
        ELSE IF yes_amount # 0 THEN "RESOLUTIONYESAMOUNTERROR" ELSE "Ok"
    ELSE IF token_type = 1 THEN
        IF yes_amount # BASIS_POINTS_DIVISOR THEN "RESOLUTIONYESAMOUNTERROR"
        ELSE IF no_amount # 0 THEN "RESOLUTIONNOAMOUNTERROR" ELSE "Ok"
    ELSE IF yes_amount + no_amount # BASIS_POINTS_DIVISOR
        THEN "RESOLUTIONYESAMOUNTERROR" ELSE "Ok"

\* Liquidation of the tokens held by the pool ATAs at resolution.
ResolutionLiquidate(m, b, yes_amount, no_amount) ==
    LET expected_no_supply ==
            m.total_no_minted + (IF m.sentinel_no_minted THEN 1 ELSE 0)
        yes_burnable == b.global_yes
        no_burnable == Min(b.global_no, expected_no_supply)
        yes_payout == (yes_burnable * yes_amount) \div BASIS_POINTS_DIVISOR
        no_redeemable == Min(b.global_no, m.total_no_minted)
        no_payout == (no_redeemable * no_amount) \div BASIS_POINTS_DIVISOR
        total_pda_payout == yes_payout + no_payout
        no_minted_decrease == Min(no_burnable, m.total_no_minted)
        no_supply_decrease == Min(no_burnable, m.token_no_total_supply)
        m1 == [m EXCEPT
                 !.total_collateral_locked = @ - total_pda_payout,
                 !.total_yes_minted = @ - yes_burnable,
                 !.total_no_minted = @ - no_minted_decrease,
                 !.token_yes_total_supply = @ - yes_burnable,
                 !.token_no_total_supply = @ - no_supply_decrease,
                 !.pool_yes_reserve = @ - Min(yes_burnable, @),
                 !.pool_no_reserve = @ - Min(no_burnable, @)]
        m2 == [m1 EXCEPT !.sentinel_no_minted =
                 IF @ /\ no_supply_decrease > 0 /\ m1.total_no_minted = 0
                 THEN FALSE ELSE @]
    IN  IF ~(b.global_yes <= m.total_yes_minted)
            THEN Fail("TokenSupplyMismatch", m)
        ELSE IF ~(b.global_no <= expected_no_supply)
            THEN Fail("TokenSupplyMismatch", m)
        ELSE IF m.total_collateral_locked < total_pda_payout
            THEN Fail("InsufficientLiquidity", m)
        ELSE IF m.token_yes_total_supply < yes_burnable
            THEN Fail("InsufficientBalance", m)
        ELSE Done(m2, config, lp,
                  [b EXCEPT !.global_yes = @ - yes_burnable,
                            !.global_no = @ - no_burnable])

ResolutionResult(caller, yes_amount, no_amount, token_type, is_completed) ==
    IF token_type \notin {0, 1, 2} THEN Fail("InvalidMarketOutcome", market)
    ELSE IF caller # Authority
        THEN Fail("InvalidMigrationAuthority", market)
    ELSE IF market.is_completed THEN Fail("MarketIsCompleted", market)
    ELSE IF ~(slot >= market.ending_slot) THEN Fail("MarketNotEnded", market)
    ELSE IF ResolutionRatioError(yes_amount, no_amount, token_type) # "Ok"
        THEN Fail(ResolutionRatioError(yes_amount, no_amount, token_type),
                  market)
    ELSE ResolutionLiquidate(
            ResolutionMark([market EXCEPT !.resolution_yes_ratio = yes_amount,
                                          !.resolution_no_ratio = no_amount,
                                          !.winner_token_type = token_type],
                           is_completed),
            bal, yes_amount, no_amount)

\* The resolutions submitted: YES wins, NO wins, a draw, a resolution that
\* does not complete the market, and two malformed ones.
ResolutionInputs ==
    { <<10000, 0, 1, TRUE>>, <<0, 10000, 0, TRUE>>, <<5000, 5000, 2, TRUE>>,
      <<10000, 0, 1, FALSE>>, <<10000, 0, 0, TRUE>>, <<10000, 0, 3, TRUE>> }

resolution(caller, yes_amount, no_amount, token_type, is_completed) ==
    /\ steps < MaxSteps
    /\ Commit("resolution",
              <<caller, yes_amount, no_amount, token_type, is_completed>>,
              ResolutionResult(caller, yes_amount, no_amount, token_type,
                               is_completed))

\* ------------------------------------------------------------------------
\* settle_pool (settle_pool.rs)
\* ------------------------------------------------------------------------
SettlePoolResult(caller) ==
    LET yes_lost == market.winner_token_type = 0
        loser_reserve == IF yes_lost THEN market.pool_yes_reserve
                         ELSE market.pool_no_reserve
        loser_ata == IF yes_lost THEN bal.global_yes ELSE bal.global_no
    IN  IF ~market.is_completed THEN Fail("MarketNotCompleted", market)
        ELSE IF caller # Authority THEN Fail("IncorrectAuthority", market)
        ELSE IF ~(market.winner_token_type <= 2)
            THEN Fail("RESOLUTIONTOKEYTYPEERROR", market)
        ELSE IF market.winner_token_type = 2 \/ loser_reserve = 0
            THEN Done([market EXCEPT !.pool_settled = TRUE], config, lp, bal)
        ELSE IF loser_ata < loser_reserve
            THEN Fail("TokenInsufficientFunds", market)
        ELSE IF yes_lost
            THEN Done([market EXCEPT !.pool_yes_reserve = 0,
                                     !.pool_settled = TRUE],
                      config, lp,
                      [bal EXCEPT !.global_yes = @ - loser_reserve])
        ELSE Done([market EXCEPT !.pool_no_reserve = 0,
                                 !.pool_settled = TRUE],
                  config, lp, [bal EXCEPT !.global_no = @ - loser_reserve])

settle_pool(caller) ==
    /\ steps < MaxSteps
    /\ Commit("settle_pool", <<caller>>, SettlePoolResult(caller))

\* ------------------------------------------------------------------------
\* reclaim_dust (reclaim_dust.rs)
\* ------------------------------------------------------------------------
\* The vault balance the handler requires before it sweeps.
DustAny(b) == TRUE

DustPresent(b) == b.vault > 0

\* Account constraints in declaration order, then the handler body: the
\* whole vault balance goes to the team wallet.
ReclaimDustResult(authority) ==
    IF authority # Authority THEN Fail("IncorrectAuthority", market)
    ELSE IF ~market.pool_settled THEN Fail("PoolNotSettled", market)
    ELSE IF ~(market.total_collateral_locked = 0)
        THEN Fail("CollateralStillLocked", market)
    ELSE IF ~(market.total_lp_shares = 0)
        THEN Fail("LPSharesStillExist", market)
    ELSE IF ~(market.pool_collateral_reserve = 0)
        THEN Fail("InsufficientLiquidity", market)
    ELSE IF ~(market.accumulated_lp_fees = 0)
        THEN Fail("InsufficientBalance", market)
    ELSE IF ~DustPresent(bal) THEN Fail("InsufficientBalance", market)
    ELSE Done(market, config, lp,
              [bal EXCEPT !.vault = 0, !.team = @ + bal.vault])

reclaim_dust(authority) ==
    /\ steps < MaxSteps
    /\ Commit("reclaim_dust", <<authority>>, ReclaimDustResult(authority))

\* ------------------------------------------------------------------------
\* claim_rewards (claim_rewards.rs)
\* ------------------------------------------------------------------------
\* token::burn of the user's whole YES and NO balances.
ClaimKeepsTokens(b, user) == b

ClaimBurn(b, user) == [b EXCEPT !.yes[user] = 0, !.no[user] = 0]

ClaimRewardsBody(g, user) ==
    LET yes_balance == bal.yes[user]
        no_balance == bal.no[user]
        yes_payout ==
            (yes_balance * g.resolution_yes_ratio) \div BASIS_POINTS_DIVISOR
        no_payout ==
            (no_balance * g.resolution_no_ratio) \div BASIS_POINTS_DIVISOR
        total_payout == yes_payout + no_payout
        collateral_released == Min(total_payout, g.total_collateral_locked)
        from_liquidity == total_payout - collateral_released
    IN  IF ~g.is_completed THEN Fail("MarketNotCompleted", g)
        ELSE IF ~(yes_balance > 0 \/ no_balance > 0)
            THEN Fail("InsufficientBalance", g)
        ELSE IF total_payout > 0 /\ ~(bal.vault >= total_payout)
            THEN Fail("InsufficientLiquidity", g)
        ELSE IF total_payout > 0
                /\ ~(bal.vault - total_payout >= config.usdc_vault_min_balance)
            THEN Fail("InsufficientBalance", g)
        ELSE IF from_liquidity > 0
                /\ ~(g.pool_collateral_reserve >= from_liquidity)
            THEN Fail("InsufficientLiquidity", g)
        ELSE Done([g EXCEPT
                     !.total_collateral_locked = @ - collateral_released,
                     !.pool_collateral_reserve = @ - from_liquidity,
                     !.total_yes_minted = @ - Min(yes_balance, @),
                     !.total_no_minted = @ - Min(no_balance, @),
                     !.token_yes_total_supply = @ - Min(yes_balance, @),
                     !.token_no_total_supply = @ - Min(no_balance, @)],
                  config, lp,
                  ClaimBurn(UsdcOut(bal, user, total_payout), user))

ClaimRewardsResult(user) ==
    IF ReentrancyHeld(market, "claim_in_progress") THEN Fail("ReentrancyDetected", market)
    ELSE Guarded(ClaimRewardsBody(
                    ReentrancyGuardNew(market, "claim_in_progress"), user),
                 "claim_in_progress")

claim_rewards(user) ==
    /\ steps < MaxSteps
    /\ Commit("claim_rewards", <<user>>, ClaimRewardsResult(user))

\* ------------------------------------------------------------------------
\* claim_lp_fees (claim_lp_fees.rs)
\* ------------------------------------------------------------------------
ClaimLpFeesBody(g, user) ==
    LET fee_per_share_delta ==
            g.fee_per_share_cumulative - lp[user].last_fee_per_share
        fees_amount ==
            MulDiv(lp[user].lp_shares, fee_per_share_delta,
                   FEE_PER_SHARE_PRECISION)
    IN  IF config.is_paused THEN Fail("ContractPaused", g)
        ELSE IF ~(g.total_lp_shares > 0) THEN Fail("InsufficientLiquidity", g)
        ELSE IF fee_per_share_delta < 0 THEN Fail("MathOverflow", g)
        ELSE IF fees_amount = 0 THEN Done(g, config, lp, bal)
        ELSE IF ~(bal.vault >= fees_amount)
            THEN Fail("InsufficientLiquidity", g)
        ELSE IF ~(g.accumulated_lp_fees >= fees_amount)
            THEN Fail("InsufficientBalance", g)
        ELSE IF ~(bal.vault - fees_amount >= config.usdc_vault_min_balance)
            THEN Fail("InsufficientBalance", g)
        ELSE Done([g EXCEPT !.accumulated_lp_fees = @ - fees_amount],
                  config,
                  [lp EXCEPT ![user].last_fee_per_share =
                      g.fee_per_share_cumulative],
                  UsdcOut(bal, user, fees_amount))

ClaimLpFeesResult(user) ==
    IF ~(lp[user].lp_shares > 0) THEN Fail("WITHDRAWNOTLPERROR", market)
    ELSE IF ReentrancyHeld(market, "claim_in_progress") THEN Fail("ReentrancyDetected", market)
    ELSE Guarded(ClaimLpFeesBody(
                    ReentrancyGuardNew(market, "claim_in_progress"), user),
                 "claim_in_progress")

claim_lp_fees(user) ==
    /\ steps < MaxSteps
    /\ Commit("claim_lp_fees", <<user>>, ClaimLpFeesResult(user))

\* ------------------------------------------------------------------------
\* Administration: global pause, market pause, mint authority hand-over.
\* ------------------------------------------------------------------------
PauseResult(caller) ==
    IF caller # Authority THEN Fail("InvalidAuthority", market)
    ELSE IF config.is_paused THEN Fail("AlreadyPaused", market)
    ELSE Done(market, [config EXCEPT !.is_paused = TRUE], lp, bal)

pause(caller) ==
    /\ steps < MaxSteps
    /\ Commit("pause", <<caller>>, PauseResult(caller))

UnpauseResult(caller) ==
    IF caller # Authority THEN Fail("InvalidAuthority", market)
    ELSE IF ~config.is_paused THEN Fail("NotPaused", market)
    ELSE Done(market, [config EXCEPT !.is_paused = FALSE], lp, bal)

unpause(caller) ==
    /\ steps < MaxSteps
    /\ Commit("unpause", <<caller>>, UnpauseResult(caller))

PauseMarketResult(caller, paused) ==
    IF caller # Authority THEN Fail("InvalidAuthority", market)
    ELSE Done([market EXCEPT !.market_paused = paused], config, lp, bal)

pause_market(caller) ==
    /\ steps < MaxSteps
    /\ Commit("pause_market", <<caller>>, PauseMarketResult(caller, TRUE))

unpause_market(caller) ==
    /\ steps < MaxSteps
    /\ Commit("unpause_market", <<caller>>, PauseMarketResult(caller, FALSE))

SetMintAuthorityResult(caller) ==
    IF bal.mint_authority # "global_vault"
        THEN Fail("InvalidMintAuthority", market)
    ELSE IF caller # Authority THEN Fail("InvalidAuthority", market)
    ELSE Done(market, config, lp, [bal EXCEPT !.mint_authority = "market"])

set_mint_authority(caller) ==
    /\ steps < MaxSteps
    /\ Commit("set_mint_authority", <<caller>>, SetMintAuthorityResult(caller))

\* configure (configure.rs) on an initialised Config: the authority replaces
\* the configuration.  The replacements submitted differ from the current
\* one in usdc_vault_min_balance only, so the other range checks hold as they
\* did when the current configuration was accepted.
MAX_USDC_VAULT_MIN_BALANCE == 1000000

\* The handler serialises new_config over the whole Config account, the
\* running lp_insurance_pool_balance included.
ConfigureWrite(caller, new_config) ==
    IF ~(new_config.usdc_vault_min_balance <= MAX_USDC_VAULT_MIN_BALANCE)
        THEN Fail("ValueTooLarge", market)
    ELSE IF caller # Authority THEN Fail("IncorrectAuthority", market)
    ELSE Done(market, new_config, lp, bal)

ConfigureResult(caller, vault_min) ==
    ConfigureWrite(caller, [config EXCEPT !.usdc_vault_min_balance = vault_min])

configure(caller, vault_min) ==
    /\ steps < MaxSteps
    /\ Commit("configure", <<caller, vault_min>>,
              ConfigureResult(caller, vault_min))

\* The clock advances to the next observed point.
Advance(points) ==
    /\ rejected < MaxRejected
    /\ \E s \in points :
          /\ s > slot
          /\ \A t \in points : t > slot => s <= t
          /\ slot' = s
    /\ UNCHANGED <<market, config, lp, bal, last, prev, steps, rejected>>

Tick == Advance(SlotPoints)

\* ------------------------------------------------------------------------
\* add_liquidity (add_liquidity.rs)
\* ------------------------------------------------------------------------
lmsr_get_yes_price(m) == lmsr_marginal_price(m.lmsr_b, m.lmsr_q_yes, m.lmsr_q_no)

lmsr_get_no_price(m) == ONE - lmsr_get_yes_price(m)

\* (lp_shares, yes_to_mint, no_to_mint, usdc_to_pool) of the first LP.
AddFirstLp(m, usdc_amount) ==
    LET yes_ratio_bps == m.initial_yes_prob
        no_ratio_bps == 10000 - m.initial_yes_prob
        yes_to_mint == (usdc_amount * yes_ratio_bps) \div 10000
        no_to_mint == (usdc_amount * no_ratio_bps) \div 10000
        total_minted == yes_to_mint + no_to_mint
        complete_sets == Min(yes_to_mint, no_to_mint)
        actual_yes_ratio == IF total_minted > 0
                            THEN (yes_to_mint * 10000) \div total_minted ELSE 0
        ratio_diff == Abs(actual_yes_ratio - yes_ratio_bps)
    IN  [ err |-> IF ~(total_minted >= SatSub(usdc_amount, 1)
                       /\ total_minted <= usdc_amount + 1)
                      THEN "InvalidAmount"
                  ELSE IF ~(ratio_diff <= 200) THEN "InvalidParameter"
                  ELSE "Ok",
          lp_shares |-> SatSub(usdc_amount, MIN_LIQUIDITY),
          yes_to_mint |-> yes_to_mint, no_to_mint |-> no_to_mint,
          usdc_to_pool |-> SatSub(usdc_amount, complete_sets) ]

\* The same quadruple for a later LP, priced at the pool's current value.
AddSubsequentLpHalfShares(m, usdc_amount) ==
    Bind(lmsr_get_yes_price(m), LAMBDA yes_price :
    Bind(lmsr_get_no_price(m), LAMBDA no_price :
    Bind(m.pool_collateral_reserve
           + to_u64(fp_mul(from_u64(m.pool_yes_reserve), yes_price))
           + to_u64(fp_mul(from_u64(m.pool_no_reserve), no_price)),
         LAMBDA total_pool_value :
        IF no_price < 0 \/ total_pool_value = 0
        THEN [ err |-> "MathOverflow", lp_shares |-> 0, yes_to_mint |-> 0,
               no_to_mint |-> 0, usdc_to_pool |-> 0 ]
        ELSE
        Bind(MulDiv(usdc_amount, m.total_lp_shares, total_pool_value),
             LAMBDA shares :
        Bind(Max(MulDiv(m.pool_yes_reserve, shares, m.total_lp_shares),
                 MulDiv(m.pool_no_reserve, shares, m.total_lp_shares)),
             LAMBDA complete_sets :
             [ err |-> "Ok", lp_shares |-> shares \div 2,
               yes_to_mint |-> complete_sets, no_to_mint |-> complete_sets,
               usdc_to_pool |->
                   MulDiv(m.pool_collateral_reserve, shares,
                          m.total_lp_shares) ])))))

AddSubsequentLp(m, usdc_amount) ==
    Bind(lmsr_get_yes_price(m), LAMBDA yes_price :
    Bind(lmsr_get_no_price(m), LAMBDA no_price :
    Bind(m.pool_collateral_reserve
           + to_u64(fp_mul(from_u64(m.pool_yes_reserve), yes_price))
           + to_u64(fp_mul(from_u64(m.pool_no_reserve), no_price)),
         LAMBDA total_pool_value :
        IF no_price < 0 \/ total_pool_value = 0
        THEN [ err |-> "MathOverflow", lp_shares |-> 0, yes_to_mint |-> 0,
               no_to_mint |-> 0, usdc_to_pool |-> 0 ]
        ELSE
        Bind(MulDiv(usdc_amount, m.total_lp_shares, total_pool_value),
             LAMBDA shares :
        Bind(Max(MulDiv(m.pool_yes_reserve, shares, m.total_lp_shares),
                 MulDiv(m.pool_no_reserve, shares, m.total_lp_shares)),
             LAMBDA complete_sets :
             [ err |-> "Ok", lp_shares |-> shares,
               yes_to_mint |-> complete_sets, no_to_mint |-> complete_sets,
               usdc_to_pool |->
                   MulDiv(m.pool_collateral_reserve, shares,
                          m.total_lp_shares) ])))))

\* The share bookkeeping of add_liquidity on the market and on the position.
AddSharesMarket(m, lp_shares) == [m EXCEPT !.total_lp_shares = @ + lp_shares]

AddSharesPosition(pos, m, lp_shares, usdc_amount, now) ==
    [pos EXCEPT !.lp_shares = @ + lp_shares,
                !.invested_usdc = @ + usdc_amount,
                !.last_fee_per_share = m.fee_per_share_cumulative,
                !.created_at = IF pos.lp_shares = 0 THEN now ELSE @,
                !.last_add_at = now]

AddLiquidityBody(g, user, usdc_amount) ==
    IF ~(usdc_amount >= config.min_usdc_liquidity)
        THEN Fail("ValueTooSmall", g)
    ELSE IF g.is_completed THEN Fail("MarketIsCompleted", g)
    ELSE IF g.market_paused THEN Fail("MarketPaused", g)
    ELSE
    Bind(IF g.total_lp_shares = 0 THEN AddFirstLp(g, usdc_amount)
         ELSE AddSubsequentLp(g, usdc_amount), LAMBDA q :
    LET complete_sets_minted == Min(q.yes_to_mint, q.no_to_mint)
        m1 == AddSharesMarket(
                [g EXCEPT !.pool_collateral_reserve = @ + q.usdc_to_pool,
                          !.pool_yes_reserve = @ + q.yes_to_mint,
                          !.pool_no_reserve = @ + q.no_to_mint],
                q.lp_shares)
        m2 == [m1 EXCEPT
                 !.total_collateral_locked = @ + complete_sets_minted,
                 !.total_yes_minted = @ + q.yes_to_mint,
                 !.total_no_minted = @ + q.no_to_mint]
        m3 == IF m2.initial_yes_reserve = 0
              THEN [m2 EXCEPT !.initial_yes_reserve = m2.pool_yes_reserve,
                              !.initial_no_reserve = m2.pool_no_reserve,
                              !.withdraw_tracking_start = Now(slot)]
              ELSE m2
    IN  IF q.err # "Ok" THEN Fail(q.err, g)
        ELSE IF bal.usdc[user] < usdc_amount
            THEN Fail("TokenInsufficientFunds", g)
        ELSE IF q.usdc_to_pool + complete_sets_minted # usdc_amount
            THEN Fail("InvalidAmount", m1)
        ELSE Done(m3, config,
                  [lp EXCEPT ![user] =
                      AddSharesPosition(@, m3, q.lp_shares, usdc_amount,
                                        Now(slot))],
                  [UsdcIn(bal, user, usdc_amount) EXCEPT
                      !.global_yes = @ + q.yes_to_mint,
                      !.global_no = @ + q.no_to_mint]))

AddLiquidityResult(user, usdc_amount) ==
    IF bal.mint_authority # "market"
        THEN Fail("MintAuthorityNotTransferred", market)
    ELSE IF ReentrancyHeld(market, "add_liquidity_in_progress")
        THEN Fail("ReentrancyDetected", market)
    ELSE Guarded(AddLiquidityBody(
                    ReentrancyGuardNew(market, "add_liquidity_in_progress"),
                    user, usdc_amount),
                 "add_liquidity_in_progress")

add_liquidity(user, usdc_amount) ==
    /\ steps < MaxSteps
    /\ Commit("add_liquidity", <<user, usdc_amount>>,
              AddLiquidityResult(user, usdc_amount))

\* ------------------------------------------------------------------------
\* withdraw_liquidity (withdraw_liquidity.rs)
\* ------------------------------------------------------------------------
calculate_proportional_share(total, numerator, denominator) ==
    MulDiv(total, numerator, denominator)

\* larger * 100 / smaller of the pool's YES and NO reserves; a one-sided
\* pool reports u128::MAX, which only ever compares as the largest ratio.
get_imbalance_ratio(m) ==
    LET larger == Max(m.pool_yes_reserve, m.pool_no_reserve)
        smaller == Min(m.pool_yes_reserve, m.pool_no_reserve)
    IN  IF smaller = 0 THEN IntLimit ELSE (larger * 100) \div smaller

MaxWithdrawBps(m) ==
    LET imbalance_ratio == get_imbalance_ratio(m)
    IN  IF imbalance_ratio < IMBALANCE_RATIO_MILD
            THEN BALANCED_MAX_WITHDRAW_BPS
        ELSE IF imbalance_ratio < IMBALANCE_RATIO_MODERATE
            THEN MILD_IMBALANCE_MAX_WITHDRAW_BPS
        ELSE IF imbalance_ratio < IMBALANCE_RATIO_HIGH
            THEN MODERATE_IMBALANCE_MAX_WITHDRAW_BPS
        ELSE HIGH_IMBALANCE_MAX_WITHDRAW_BPS

EarlyExitPenaltyBps(holding_period) ==
    IF holding_period < 7 * 24 * 3600 THEN EARLY_EXIT_PENALTY_7D
    ELSE IF holding_period < 14 * 24 * 3600 THEN EARLY_EXIT_PENALTY_14D
    ELSE IF holding_period < 30 * 24 * 3600 THEN EARLY_EXIT_PENALTY_30D
    ELSE 0

\* LmsrCalculator::sell_yes_proceeds / sell_no_proceeds: cost before minus
\* cost after at the stored b; -1 stands for the checked_sub failure.
SellProceeds(m, amount, is_yes) ==
    Bind(lmsr_cost(m.lmsr_b, m.lmsr_q_yes, m.lmsr_q_no), LAMBDA cost_before :
    Bind(lmsr_cost(m.lmsr_b,
                   IF is_yes THEN m.lmsr_q_yes - amount ELSE m.lmsr_q_yes,
                   IF is_yes THEN m.lmsr_q_no ELSE m.lmsr_q_no - amount),
         LAMBDA cost_after :
        IF cost_before >= cost_after THEN cost_before - cost_after ELSE 0 - 1))

\* internal_sell_yes / internal_sell_no: the market after the fee-less sale
\* of the leftover tokens, with the proceeds.
InternalSell(m, amount, is_yes) ==
    Bind(SellProceeds(m, amount, is_yes), LAMBDA usdc_out :
        IF usdc_out < 0 THEN [err |-> "MathOverflow", m |-> m, out |-> 0]
        ELSE IF m.pool_collateral_reserve < usdc_out
            THEN [err |-> "InsufficientLiquidity", m |-> m, out |-> 0]
        ELSE [ err |-> "Ok", out |-> usdc_out,
               m |-> IF is_yes
                     THEN [m EXCEPT !.lmsr_q_yes = @ + amount,
                                    !.pool_yes_reserve = @ + amount,
                                    !.pool_collateral_reserve = @ - usdc_out]
                     ELSE [m EXCEPT !.lmsr_q_no = @ + amount,
                                    !.pool_no_reserve = @ + amount,
                                    !.pool_collateral_reserve = @ - usdc_out] ])

\* Insurance compensation for a withdrawal that returns less than invested.
InsuranceCompensationUnclamped(m, usdc_after_penalty, invested_usdc_share) ==
    LET loss == invested_usdc_share - usdc_after_penalty
        loss_bps == (loss * BASIS_POINTS_DIVISOR) \div invested_usdc_share
        max_compensation ==
            (loss * config.insurance_max_compensation_bps)
                \div BASIS_POINTS_DIVISOR
    IN  IF config.insurance_pool_enabled
           /\ usdc_after_penalty < invested_usdc_share
           /\ invested_usdc_share > 0
           /\ loss_bps > config.insurance_loss_threshold_bps
        THEN Min(max_compensation, config.lp_insurance_pool_balance)
        ELSE 0

InsuranceCompensation(m, usdc_after_penalty, invested_usdc_share) ==
    LET loss == invested_usdc_share - usdc_after_penalty
        loss_bps == (loss * BASIS_POINTS_DIVISOR) \div invested_usdc_share
        max_compensation ==
            (loss * config.insurance_max_compensation_bps)
                \div BASIS_POINTS_DIVISOR
    IN  IF config.insurance_pool_enabled
           /\ usdc_after_penalty < invested_usdc_share
           /\ invested_usdc_share > 0
           /\ loss_bps > config.insurance_loss_threshold_bps
        THEN Min(Min(max_compensation, config.lp_insurance_pool_balance),
                 m.insurance_pool_contribution)
        ELSE 0

\* The share bookkeeping of withdraw_liquidity.
WithdrawSharesMarket(m, lp_shares) ==
    [m EXCEPT !.total_lp_shares = @ - lp_shares]

WithdrawSharesKept(pos, lp_shares, invested_usdc_share) ==
    [pos EXCEPT !.invested_usdc = @ - invested_usdc_share]

WithdrawSharesPosition(pos, lp_shares, invested_usdc_share) ==
    [pos EXCEPT !.lp_shares = @ - lp_shares,
                !.invested_usdc = @ - invested_usdc_share]

\* The pre-flight projection: would the pool after this withdrawal trip the
\* circuit breaker?
WouldTrigger(m, yes_share, no_share, usdc_share, projected_withdraw_24h) ==
    LET pool_yes_after == SatSub(m.pool_yes_reserve, yes_share)
        pool_no_after == SatSub(m.pool_no_reserve, no_share)
        pool_usdc_after == SatSub(m.pool_collateral_reserve, usdc_share)
        total_pool_value_after ==
            pool_usdc_after + pool_yes_after + pool_no_after
        larger == Max(pool_yes_after, pool_no_after)
        smaller == Min(pool_yes_after, pool_no_after)
    IN  \/ smaller > 0 /\ larger \div smaller >= CIRCUIT_BREAKER_RATIO
        \/ m.initial_yes_reserve > 0
            /\ pool_yes_after < m.initial_yes_reserve \div 10
        \/ m.initial_no_reserve > 0
            /\ pool_no_after < m.initial_no_reserve \div 10
        \/ projected_withdraw_24h > total_pool_value_after \div 2

\* The post-flight check on the updated pool.
NeverTrigger(m) == FALSE

should_trigger_circuit_breaker(m) ==
    LET larger == Max(m.pool_yes_reserve, m.pool_no_reserve)
        smaller == Min(m.pool_yes_reserve, m.pool_no_reserve)
        total_pool_value ==
            m.pool_collateral_reserve + m.pool_yes_reserve + m.pool_no_reserve
    IN  \/ IF smaller > 0 THEN larger \div smaller >= CIRCUIT_BREAKER_RATIO
           ELSE TRUE
        \/ m.pool_yes_reserve <
              MulDiv(m.initial_yes_reserve, CIRCUIT_BREAKER_MIN_RESERVE_BPS,
                     BASIS_POINTS_DIVISOR)
        \/ m.pool_no_reserve <
              MulDiv(m.initial_no_reserve, CIRCUIT_BREAKER_MIN_RESERVE_BPS,
                     BASIS_POINTS_DIVISOR)
        \/ m.withdraw_last_24h >
              MulDiv(total_pool_value, CIRCUIT_BREAKER_WITHDRAW_24H_BPS,
                     BASIS_POINTS_DIVISOR)

\* The ledger update and everything after it, for a withdrawal whose
\* amounts have been determined; m is the market after the internal sale.
WithdrawSettle(m, user, lp_shares, usdc_share, yes_share, no_share, paired_sets, burned_yes, burned_no, invested_usdc_share, insurance_compensation, final_usdc_out) ==
    LET now == Now(slot)
        m1 == WithdrawSharesMarket(
                [m EXCEPT
                   !.total_collateral_locked = @ - paired_sets,
                   !.total_yes_minted = @ - yes_share,
                   !.total_no_minted = @ - no_share,
                   !.pool_collateral_reserve = @ - usdc_share - paired_sets,
                   !.pool_yes_reserve = @ - paired_sets,
                   !.pool_no_reserve = @ - paired_sets],
                lp_shares)
        tracking_duration == now - m.withdraw_tracking_start
        projected_withdraw_24h ==
            IF tracking_duration >= 86400 THEN final_usdc_out
            ELSE m.withdraw_last_24h + final_usdc_out
        m2 == IF tracking_duration >= 86400
              THEN [m1 EXCEPT !.withdraw_last_24h = final_usdc_out,
                              !.withdraw_tracking_start = now]
              ELSE [m1 EXCEPT !.withdraw_last_24h = projected_withdraw_24h]
        m3 == [m2 EXCEPT !.insurance_pool_contribution =
                            @ - insurance_compensation]
        m4 == IF should_trigger_circuit_breaker(m3)
              THEN [m3 EXCEPT !.circuit_breaker_active = TRUE,
                              !.circuit_breaker_triggered_at = now]
              ELSE m3
    IN  IF m.total_collateral_locked < paired_sets
           \/ m.total_yes_minted < yes_share
           \/ m.total_no_minted < no_share
           \/ m.pool_collateral_reserve < usdc_share + paired_sets
           \/ m.pool_yes_reserve < paired_sets
           \/ m.pool_no_reserve < paired_sets
           \/ m.total_lp_shares < lp_shares
            THEN Fail("MathOverflow", m)
        ELSE IF WouldTrigger(m1, yes_share, no_share, usdc_share,
                             projected_withdraw_24h)
            THEN Fail("WouldTriggerCircuitBreaker", m1)
        ELSE IF lp[user].invested_usdc < invested_usdc_share
            THEN Fail("MathOverflow", m2)
        ELSE IF bal.vault < final_usdc_out
            THEN Fail("TokenInsufficientFunds", m4)
        ELSE Done(m4,
                  [config EXCEPT !.lp_insurance_pool_balance =
                      @ - insurance_compensation],
                  [lp EXCEPT ![user] =
                      WithdrawSharesPosition(@, lp_shares,
                                             invested_usdc_share)],
                  [UsdcOut(bal, user, final_usdc_out) EXCEPT
                      !.global_yes = @ - burned_yes,
                      !.global_no = @ - burned_no])

\* Amount determination: proportional shares, pairing, the internal sale of
\* the leftover side, penalty, insurance, slippage.
WithdrawAmounts(g, user, lp_shares, min_usdc_out) ==
    Bind(calculate_proportional_share(
             g.pool_collateral_reserve, lp_shares, g.total_lp_shares),
         LAMBDA usdc_share :
    Bind(calculate_proportional_share(
             g.pool_yes_reserve, lp_shares, g.total_lp_shares),
         LAMBDA yes_share :
    Bind(calculate_proportional_share(
             g.pool_no_reserve, lp_shares, g.total_lp_shares),
         LAMBDA no_share :
    Bind(Min(yes_share, no_share), LAMBDA paired_sets :
    Bind(SatSub(yes_share, paired_sets), LAMBDA leftover_yes :
    Bind(SatSub(no_share, paired_sets), LAMBDA leftover_no :
        IF bal.global_yes < paired_sets \/ bal.global_no < paired_sets
            THEN Fail("TokenInsufficientFunds", g)
        ELSE
        Bind(IF leftover_yes > 0 \/ leftover_no > 0
             THEN InternalSell(g, IF leftover_yes > 0 THEN leftover_yes
                                  ELSE leftover_no, leftover_yes > 0)
             ELSE [err |-> "Ok", m |-> g, out |-> 0], LAMBDA sale :
        IF sale.err # "Ok" THEN Fail(sale.err, g)
        ELSE IF bal.global_yes < paired_sets + leftover_yes
                \/ bal.global_no < paired_sets + leftover_no
            THEN Fail("TokenInsufficientFunds", sale.m)
        ELSE
        Bind(usdc_share + paired_sets + sale.out, LAMBDA gross_usdc :
        Bind(gross_usdc
               - (gross_usdc
                    * EarlyExitPenaltyBps(Now(slot) - lp[user].created_at))
                     \div BASIS_POINTS_DIVISOR, LAMBDA usdc_after_penalty :
        Bind(calculate_proportional_share(
                 lp[user].invested_usdc, lp_shares, g.total_lp_shares),
             LAMBDA invested_usdc_share :
        Bind(InsuranceCompensation(g, usdc_after_penalty, invested_usdc_share),
             LAMBDA insurance_compensation :
        Bind(usdc_after_penalty + insurance_compensation,
             LAMBDA final_usdc_out :
            IF ~(final_usdc_out >= min_usdc_out)
                THEN Fail("SlippageExceeded", sale.m)
            ELSE WithdrawSettle(sale.m, user, lp_shares, usdc_share,
                                yes_share, no_share, paired_sets,
                                paired_sets + leftover_yes,
                                paired_sets + leftover_no,
                                invested_usdc_share, insurance_compensation,
                                final_usdc_out)))))))))))))

\* Layer 4: the circuit breaker gate.
BreakerGateOpen(g) == FALSE

BreakerGate(g) == g.circuit_breaker_active

WithdrawLiquidityBody(g, user, lp_shares, min_usdc_out) ==
    IF g.market_paused THEN Fail("MarketPaused", g)
    ELSE IF config.is_paused THEN Fail("ContractPaused", g)
    ELSE IF ~(lp_shares > 0) THEN Fail("InvalidAmount", g)
    ELSE IF ~(lp[user].lp_shares >= lp_shares)
        THEN Fail("InsufficientBalance", g)
    ELSE IF ~(g.total_lp_shares > 0) THEN Fail("InsufficientLiquidity", g)
    ELSE IF g.is_completed /\ ~g.pool_settled
            /\ g.pool_collateral_reserve
                 - MulDiv(lp_shares, g.pool_collateral_reserve,
                          g.total_lp_shares)
               < g.total_collateral_locked
        THEN Fail("InsufficientLiquidity", g)
    ELSE IF BreakerGate(g) THEN Fail("CircuitBreakerTriggered", g)
    ELSE IF ~(lp_shares <= MulDiv(g.total_lp_shares, MaxWithdrawBps(g),
                                  BASIS_POINTS_DIVISOR))
        THEN Fail("ExcessiveWithdrawal", g)
    ELSE WithdrawAmounts(g, user, lp_shares, min_usdc_out)

WithdrawLiquidityResult(user, lp_shares, min_usdc_out) ==
    IF bal.mint_authority # "market"
        THEN Fail("MintAuthorityNotTransferred", market)
    ELSE IF ~(lp[user].lp_shares > 0) THEN Fail("InsufficientBalance", market)
    ELSE IF ReentrancyHeld(market, "withdraw_in_progress")
        THEN Fail("ReentrancyDetected", market)
    ELSE Guarded(WithdrawLiquidityBody(
                    ReentrancyGuardNew(market, "withdraw_in_progress"),
                    user, lp_shares, min_usdc_out),
                 "withdraw_in_progress")

withdraw_liquidity(user, lp_shares, min_usdc_out) ==
    /\ steps < MaxSteps
    /\ Commit("withdraw_liquidity", <<user, lp_shares, min_usdc_out>>,
              WithdrawLiquidityResult(user, lp_shares, min_usdc_out))

\* ------------------------------------------------------------------------
\* reset_circuit_breaker (reset_circuit_breaker.rs)
\* ------------------------------------------------------------------------
CIRCUIT_BREAKER_COOLDOWN_SECONDS == 86400

CIRCUIT_BREAKER_RESET_RATIO_NUMERATOR == 7

CIRCUIT_BREAKER_RESET_RATIO_DENOMINATOR == 2

\* The recovery test: larger / smaller < 7/2 compared as cross products; a
\* one-sided pool never passes.
ResetRatioAny(m) == TRUE

ResetRatioRecovered(m) ==
    LET larger == Max(m.pool_yes_reserve, m.pool_no_reserve)
        smaller == Min(m.pool_yes_reserve, m.pool_no_reserve)
    IN  /\ smaller > 0
        /\ larger * CIRCUIT_BREAKER_RESET_RATIO_DENOMINATOR
             < smaller * CIRCUIT_BREAKER_RESET_RATIO_NUMERATOR

ResetCircuitBreakerResult(admin) ==
    IF admin # Authority THEN Fail("InvalidAuthority", market)
    ELSE IF ~market.circuit_breaker_active
        THEN Fail("CircuitBreakerNotActive", market)
    ELSE IF ~(Now(slot) - market.circuit_breaker_triggered_at
                >= CIRCUIT_BREAKER_COOLDOWN_SECONDS)
        THEN Fail("CircuitBreakerCooldownNotElapsed", market)
    ELSE IF ~ResetRatioRecovered(market)
        THEN Fail("CircuitBreakerConditionsNotMet", market)
    ELSE Done([market EXCEPT !.circuit_breaker_active = FALSE,
                             !.circuit_breaker_triggered_at = 0,
                             !.withdraw_last_24h = 0,
                             !.withdraw_tracking_start = Now(slot)],
              config, lp, bal)

reset_circuit_breaker(admin) ==
    /\ steps < MaxSteps
    /\ Commit("reset_circuit_breaker", <<admin>>,
              ResetCircuitBreakerResult(admin))

\* ------------------------------------------------------------------------
\* swap (swap.rs handler, Market::swap in market.rs)
\* Markets are created with has_fee_override = false and nothing modelled
\* sets it, so fees always come from the global Config.
\* ------------------------------------------------------------------------
calculate_effective_lmsr_b(m, current_slot) ==
    LET slots_remaining == SatSub(m.ending_slot, current_slot)
        seconds_to_settlement == (slots_remaining * 4) \div 10
        b_multiplier ==
            IF seconds_to_settlement < FINAL_STAGE_SECONDS
                THEN FINAL_STAGE_B_MULTIPLIER
            ELSE IF seconds_to_settlement < MID_STAGE_SECONDS
                THEN MID_STAGE_B_MULTIPLIER
            ELSE NORMAL_STAGE_B_MULTIPLIER
    IN  IF current_slot >= m.ending_slot THEN m.lmsr_b
        ELSE MulDiv(m.lmsr_b, b_multiplier, BASIS_POINTS_DIVISOR)

Imbalance(m) == Abs(m.lmsr_q_yes - m.lmsr_q_no)

MajoritySide(m) == IF m.lmsr_q_yes > m.lmsr_q_no THEN 1 ELSE 0

\* The pre-trade hard cap of the buy path, on the b in force.
HardCapOff(m, token_type) == FALSE

HardCapRejects(m, token_type) ==
    /\ Imbalance(m) >= m.lmsr_b * MAX_POSITION_IMBALANCE_MULTIPLIER
    /\ token_type = MajoritySide(m)

\* The post-trade imbalance limit of apply_buy / apply_sell.
ImbalanceUnchecked(m) == FALSE

ImbalanceExceeded(m) ==
    Imbalance(m) > m.lmsr_b * MAX_POSITION_IMBALANCE_MULTIPLIER

\* apply_buy: tokens for the net amount, positions moved, limit checked.
\* ok = FALSE is the None the caller turns into MathOverflow.
apply_buy(m, change_amount, token_type) ==
    Bind(lmsr_tokens_for_usdc(m.lmsr_b, m.lmsr_q_yes, m.lmsr_q_no,
                              change_amount, token_type = 1),
         LAMBDA token_amount :
    Bind(IF token_type = 1
         THEN [m EXCEPT !.lmsr_q_yes = @ + token_amount]
         ELSE [m EXCEPT !.lmsr_q_no = @ + token_amount], LAMBDA m1 :
        [ ok |-> ~ImbalanceExceeded(m1), m |-> m1,
          token_amount |-> token_amount, change_amount |-> change_amount ]))

apply_sell(m, change_amount, token_type) ==
    Bind(lmsr_sell_payout(m.lmsr_b, m.lmsr_q_yes, m.lmsr_q_no,
                          change_amount, token_type = 1),
         LAMBDA sol_amount :
    Bind(IF token_type = 1
         THEN [m EXCEPT !.lmsr_q_yes = @ - change_amount]
         ELSE [m EXCEPT !.lmsr_q_no = @ - change_amount], LAMBDA m1 :
        [ ok |-> ~ImbalanceExceeded(m1), m |-> m1,
          token_amount |-> change_amount, change_amount |-> sol_amount ]))

\* Fee split of a trade: platform fee, LP fee, insurance allocation, team fee.
FeesTeamKeepsAll(c, base, platform_bps, lp_bps) ==
    LET platform_fee == (base * platform_bps) \div BASIS_POINTS_DIVISOR
        lp_fee == (base * lp_bps) \div BASIS_POINTS_DIVISOR
        insurance_allocation ==
            IF platform_fee > 0
            THEN (platform_fee * c.lp_insurance_allocation_bps)
                    \div BASIS_POINTS_DIVISOR
            ELSE 0
    IN  [ platform_fee |-> platform_fee, lp_fee |-> lp_fee,
          total_fee |-> platform_fee + lp_fee,
          insurance_allocation |-> insurance_allocation,
          team_fee |-> platform_fee ]

Fees(c, base, platform_bps, lp_bps) ==
    LET platform_fee == (base * platform_bps) \div BASIS_POINTS_DIVISOR
        lp_fee == (base * lp_bps) \div BASIS_POINTS_DIVISOR
        insurance_allocation ==
            IF platform_fee > 0
            THEN (platform_fee * c.lp_insurance_allocation_bps)
                    \div BASIS_POINTS_DIVISOR
            ELSE 0
    IN  [ platform_fee |-> platform_fee, lp_fee |-> lp_fee,
          total_fee |-> platform_fee + lp_fee,
          insurance_allocation |-> insurance_allocation,
          team_fee |-> platform_fee - insurance_allocation ]

\* Fee accrual that raises the per-share accumulator without booking the
\* fee in accumulated_lp_fees.
AccruePerShareOnly(m, f) ==
    [m EXCEPT !.insurance_pool_contribution = @ + f.insurance_allocation,
              !.fee_per_share_cumulative =
                  IF m.total_lp_shares > 0 /\ f.lp_fee > 0
                  THEN @ + MulDiv(f.lp_fee, FEE_PER_SHARE_PRECISION,
                                  m.total_lp_shares)
                  ELSE @]

\* Insurance counters and LP fee accrual, common to both directions.
AccrueFees(m, f) ==
    [m EXCEPT !.insurance_pool_contribution = @ + f.insurance_allocation,
              !.accumulated_lp_fees = @ + f.lp_fee,
              !.fee_per_share_cumulative =
                  IF m.total_lp_shares > 0 /\ f.lp_fee > 0
                  THEN @ + MulDiv(f.lp_fee, FEE_PER_SHARE_PRECISION,
                                  m.total_lp_shares)
                  ELSE @]

AccrueInsurance(c, f) ==
    [c EXCEPT !.lp_insurance_pool_balance = @ + f.insurance_allocation]

TokenSide(token_type) == IF token_type = 1 THEN "yes" ELSE "no"

PoolSide(token_type) ==
    IF token_type = 1 THEN "pool_yes_reserve" ELSE "pool_no_reserve"

GlobalSide(token_type) == IF token_type = 1 THEN "global_yes" ELSE "global_no"

SwapBuy(gb, user, amount, token_type, minimum_receive_amount) ==
    IF HardCapRejects(gb, token_type) THEN Fail("PoolTooImbalanced", gb)
    ELSE
    Bind(Fees(config, amount, config.platform_buy_fee, config.lp_buy_fee),
         LAMBDA f :
    Bind(amount - f.total_fee, LAMBDA amount_after_fee :
    Bind(apply_buy(gb, amount_after_fee, token_type), LAMBDA r :
    LET m1 == [AccrueFees(r.m, f) EXCEPT
                 !.pool_collateral_reserve = @ + amount_after_fee]
        m2 == [m1 EXCEPT ![PoolSide(token_type)] = @ - r.token_amount]
        b1 == [bal EXCEPT !.usdc[user] = @ - amount,
                          !.vault = @ + (amount - f.team_fee),
                          !.team = @ + f.team_fee,
                          ![GlobalSide(token_type)] = @ - r.token_amount,
                          ![TokenSide(token_type)][user] = @ + r.token_amount]
    IN  IF ~r.ok THEN Fail("MathOverflow", r.m)
        ELSE IF ~(r.token_amount >= minimum_receive_amount)
            THEN Fail("SlippageExceeded", r.m)
        ELSE IF bal.usdc[user] < amount
            THEN Fail("TokenInsufficientFunds", r.m)
        ELSE IF ~(m1[PoolSide(token_type)] >= r.token_amount)
            THEN Fail("InsufficientLiquidity", m1)
        ELSE IF bal[GlobalSide(token_type)] < r.token_amount
            THEN Fail("TokenInsufficientFunds", m2)
        ELSE Done(m2, AccrueInsurance(config, f), lp, b1))))

SwapSell(gb, user, amount, token_type, minimum_receive_amount) ==
    Bind(apply_sell(gb, amount, token_type), LAMBDA r :
    Bind(Fees(config, r.change_amount, config.platform_sell_fee,
              config.lp_sell_fee), LAMBDA f :
    Bind(r.change_amount - f.total_fee, LAMBDA amount_after_fee :
    LET m1 == [r.m EXCEPT ![PoolSide(token_type)] = @ + amount]
        m2 == AccrueFees([m1 EXCEPT !.pool_collateral_reserve =
                                       @ - r.change_amount], f)
        b1 == [bal EXCEPT !.usdc[user] = @ + amount_after_fee,
                          !.vault = @ - amount_after_fee - f.team_fee,
                          !.team = @ + f.team_fee,
                          ![GlobalSide(token_type)] = @ + amount,
                          ![TokenSide(token_type)][user] = @ - amount]
    IN  IF ~r.ok THEN Fail("MathOverflow", r.m)
        ELSE IF ~(amount_after_fee >= minimum_receive_amount)
            THEN Fail("SlippageExceeded", r.m)
        ELSE IF ~(r.m.pool_collateral_reserve >= r.change_amount)
            THEN Fail("InsufficientLiquidity", r.m)
        ELSE IF ~(bal.vault - amount_after_fee - f.team_fee
                    >= config.usdc_vault_min_balance)
            THEN Fail("InsufficientBalance", r.m)
        ELSE IF bal[TokenSide(token_type)][user] < amount
            THEN Fail("TokenInsufficientFunds", m1)
        ELSE Done(m2, AccrueInsurance(config, f), lp, b1))))

\* The closure of Market::swap, run with lmsr_b overwritten by effective_b.
SwapClosure(gb, user, amount, direction, token_type, minimum_receive_amount) ==
    IF ~(amount <= MulDiv(gb.pool_collateral_reserve, MAX_SINGLE_TRADE_BPS,
                          BASIS_POINTS_DIVISOR))
        THEN Fail("TradeSizeTooLarge", gb)
    ELSE IF direction = 0
        THEN SwapBuy(gb, user, amount, token_type, minimum_receive_amount)
    ELSE SwapSell(gb, user, amount, token_type, minimum_receive_amount)

\* self.lmsr_b = _b_restorer.original_b, executed after the closure whatever
\* its outcome.
KeepEffectiveB(r, original_b) == r

RestoreB(r, original_b) ==
    [r EXCEPT !.mem = [@ EXCEPT !.lmsr_b = original_b],
              !.market = IF r.err = "Ok"
                         THEN [@ EXCEPT !.lmsr_b = original_b] ELSE @]

\* Market::swap from the guard onwards.
MarketSwapGuarded(g, user, amount, direction, token_type, minimum_receive_amount) ==
    IF ~(slot >= g.start_slot) THEN Fail("MarketNotStarted", g)
    ELSE IF ~(slot < g.ending_slot) THEN Fail("MarketEnded", g)
    ELSE RestoreB(
            SwapClosure([g EXCEPT !.lmsr_b =
                            calculate_effective_lmsr_b(g, slot)],
                        user, amount, direction, token_type,
                        minimum_receive_amount),
            g.lmsr_b)

MarketSwap(user, amount, direction, token_type, minimum_receive_amount) ==
    IF market.is_completed THEN Fail("CurveAlreadyCompleted", market)
    ELSE IF ~(amount > 0) THEN Fail("InvalidAmount", market)
    ELSE IF ~(token_type <= 1) THEN Fail("InvalidParameter", market)
    ELSE IF ~(direction <= 1) THEN Fail("InvalidParameter", market)
    ELSE IF ReentrancyHeld(market, "swap_in_progress") THEN Fail("ReentrancyDetected", market)
    ELSE Guarded(MarketSwapGuarded(
                    ReentrancyGuardNew(market, "swap_in_progress"),
                    user, amount, direction, token_type,
                    minimum_receive_amount),
                 "swap_in_progress")

\* The instruction handler: its own checks, then Market::swap.
SwapResult(user, amount, direction, token_type, minimum_receive_amount, deadline) ==
    IF config.is_paused THEN Fail("ContractPaused", market)
    ELSE IF market.market_paused THEN Fail("MarketPaused", market)
    ELSE IF deadline > 0 /\ ~(Now(slot) <= deadline)
        THEN Fail("TransactionExpired", market)
    ELSE IF ~(market.ending_slot >= slot) THEN Fail("MarketEnded", market)
    ELSE IF market.is_completed THEN Fail("CurveAlreadyCompleted", market)
    ELSE IF ~(market.pool_collateral_reserve >= config.min_trading_liquidity)
        THEN Fail("MarketBelowMinLiquidity", market)
    ELSE IF direction \notin {0, 1} THEN Fail("InvalidTradeDirection", market)
    ELSE IF token_type \notin {0, 1} THEN Fail("InvalidTokenType", market)
    ELSE MarketSwap(user, amount, direction, token_type,
                    minimum_receive_amount)

swap(user, amount, direction, token_type, minimum_receive_amount, deadline) ==
    /\ steps < MaxSteps
    /\ Commit("swap",
              <<user, amount, direction, token_type, minimum_receive_amount,
                deadline>>,
              SwapResult(user, amount, direction, token_type,
                         minimum_receive_amount, deadline))

\* ------------------------------------------------------------------------
\* The market's life: every instruction, by either user, on small amounts.
\* ------------------------------------------------------------------------
SeedAmount == 10000

AddAmount == 4000

SetAmount == 500

WithdrawShares == {1000, 3000}

\* <<amount, direction, token_type, minimum_receive_amount, deadline>>:
\* buys and sells of both sides, a buy over the trade-size cap, a buy with an
\* unreachable minimum, and a buy past its deadline.
SwapInputs ==
    { <<1000, 0, 1, 0, 0>>, <<1000, 0, 0, 0, 0>>,
      <<300, 1, 1, 0, 0>>, <<300, 1, 0, 0, 0>>,
      <<5000, 0, 1, 0, 0>>, <<1000, 0, 1, 5000, 0>>, <<1000, 0, 0, 0, 1>> }

Next ==
    \/ Tick
    \/ \E u \in Users :
        \/ seed_pool(u, SeedAmount)
        \/ add_liquidity(u, AddAmount)
        \/ \E n \in WithdrawShares : withdraw_liquidity(u, n, 0)
        \/ mint_complete_set(u, SetAmount)
        \/ redeem_complete_set(u, SetAmount)
        \/ \E i \in SwapInputs : swap(u, i[1], i[2], i[3], i[4], i[5])
        \/ \E i \in ResolutionInputs : resolution(u, i[1], i[2], i[3], i[4])
        \/ settle_pool(u)
        \/ claim_rewards(u)
        \/ claim_lp_fees(u)
        \/ pause(u)
        \/ unpause(u)
        \/ pause_market(u)
        \/ unpause_market(u)
        \/ set_mint_authority(u)

Spec == Init /\ [][Next]_vars

\* ------------------------------------------------------------------------
\* The swap engine at the magnitudes of the hard-cap scenarios: b = 1_000_000
\* and a YES-heavy book.  The initial states are markets seeded with
\* ScenarioSeed in which traders have bought d YES from the pool, d being at
\* most the cap of the stage the clock is in.
\* ------------------------------------------------------------------------
ScenarioB == 1000000

ScenarioSeed == 10000000

ScenarioFunds == 1000000

\* The user who holds the YES bought so far and trades on.
Trader == "bob"

ScenarioImbalances == {1900000, 2000000, 2400000, 3000000}

ScenarioSlots == {0, 1000000, 1500000}

\* <<amount, direction, token_type, minimum_receive_amount, deadline>>:
\* the 100_000 YES buy, a larger YES buy, a NO buy and a YES sale.
ScenarioInputs ==
    { <<100000, 0, 1, 0, 0>>, <<150000, 0, 1, 0, 0>>,
      <<100000, 0, 0, 0, 0>>, <<100000, 1, 1, 0, 0>> }

\* What the traders paid for d YES, and the fees on it.
ScenarioPaid(d) == lmsr_cost(ScenarioB, d, 0) - lmsr_cost(ScenarioB, 0, 0)

ScenarioFees(paid) ==
    Fees(Config0, MulDiv(paid, 100, 97),
         Config0.platform_buy_fee, Config0.lp_buy_fee)

ScenarioMarket(d, paid, f) ==
    AccrueFees(
        [SeedPoolLedger([Market0 EXCEPT !.lmsr_b = ScenarioB], ScenarioSeed)
            EXCEPT !.lmsr_q_yes = d,
                   !.pool_yes_reserve = @ - d,
                   !.pool_collateral_reserve = @ + paid],
        f)

ScenarioBal(d, paid, f) ==
    [ usdc |-> [u \in Users |-> ScenarioFunds],
      yes |-> [u \in Users |-> IF u = Trader THEN d ELSE 0],
      no |-> [u \in Users |-> 0],
      vault |-> ScenarioSeed + paid + f.lp_fee + f.insurance_allocation,
      global_yes |-> ScenarioSeed - d, global_no |-> ScenarioSeed + 1,
      team |-> f.team_fee, mint_authority |-> "global_vault" ]

InitSwap ==
    /\ \E d \in ScenarioImbalances, s \in ScenarioSlots :
          /\ d <= calculate_effective_lmsr_b(
                      [Market0 EXCEPT !.lmsr_b = ScenarioB], s)
                    * MAX_POSITION_IMBALANCE_MULTIPLIER
          /\ \E paid \in {ScenarioPaid(d)} :
               \E f \in {ScenarioFees(paid)} :
                  /\ market = ScenarioMarket(d, paid, f)
                  /\ config = AccrueInsurance(Config0, f)
                  /\ bal = ScenarioBal(d, paid, f)
          /\ slot = s
    /\ lp = [u \in Users |->
                IF u = Authority
                THEN SeedPoolPosition(LPPosition0, Market0, ScenarioSeed, 0)
                ELSE LPPosition0]
    /\ last = NoAttempt
    /\ prev = NoAttempt
    /\ steps = 0
    /\ rejected = 0

NextSwap ==
    \/ Tick
    \/ \E i \in ScenarioInputs : swap(Trader, i[1], i[2], i[3], i[4], i[5])

SpecSwap == InitSwap /\ [][NextSwap]_vars

\* ------------------------------------------------------------------------
\* Settlement of a market whose tokens come from complete sets: minting,
\* resolution, pause, reconfiguration of the vault floor, and claims.
\* ------------------------------------------------------------------------
\* usdc_vault_min_balance values submitted: the recommended floor and one
\* above the cap.
VaultMinInputs == {2000, 2000000}

NextClaim ==
    \/ Tick
    \/ \E u \in Users :
        \/ mint_complete_set(u, SetAmount)
        \/ redeem_complete_set(u, SetAmount)
        \/ \E i \in ResolutionInputs : resolution(u, i[1], i[2], i[3], i[4])
        \/ claim_rewards(u)
        \/ pause(u)
        \/ unpause(u)
        \/ \E v \in VaultMinInputs : configure(u, v)

SpecClaim == Init /\ [][NextClaim]_vars

\* ------------------------------------------------------------------------
\* The LP's way out: a pool seeded by the authority whose mint authority
\* has been handed to the market PDA, then withdrawals around the dynamic
\* cap, further liquidity, trades, resolution, settlement and breaker resets.
\* ------------------------------------------------------------------------
\* The seeding slot, the ending slot, and 24 hours after the ending slot.
ExitSlotPoints == {500000, 2000000, 2216000}

ExitStart == 500000

\* A withdrawal well inside every cap tier.
ExitShares == 500

\* A deposit the pool accepts after an LP has come and gone (the split of a
\* deposit into pool collateral and complete sets must add up exactly).
ReAddAmount == 4500

\* The dynamic cap of withdraw_liquidity in shares.
WithdrawCap(m) ==
    MulDiv(m.total_lp_shares, MaxWithdrawBps(m), BASIS_POINTS_DIVISOR)

\* Shares submitted: a small amount, the whole position, the cap, cap + 1.
ExitWithdrawInputs(u) ==
    {ExitShares, lp[u].lp_shares, WithdrawCap(market), WithdrawCap(market) + 1}

\* A YES buy and a YES sale.
ExitSwapInputs == { <<1000, 0, 1, 0, 0>>, <<300, 1, 1, 0, 0>> }

\* YES wins, with and without completing the market.
ExitResolutions == { <<10000, 0, 1, TRUE>>, <<10000, 0, 1, FALSE>> }

InitExit ==
    /\ market = SeedPoolLedger(Market0, SeedAmount)
    /\ config = Config0
    /\ lp = [u \in Users |->
                IF u = Authority
                THEN SeedPoolPosition(LPPosition0, Market0, SeedAmount,
                                      Now(ExitStart))
                ELSE LPPosition0]
    /\ bal = [UsdcIn(Bal0, Authority, SeedAmount) EXCEPT
                 !.global_yes = @ + SeedAmount,
                 !.global_no = @ + SeedAmount,
                 !.mint_authority = "market"]
    /\ slot = ExitStart
    /\ last = NoAttempt
    /\ prev = NoAttempt
    /\ steps = 0
    /\ rejected = 0

NextExit ==
    \/ Advance(ExitSlotPoints)
    \/ \E u \in Users :
        \/ \E a \in {AddAmount, ReAddAmount} : add_liquidity(u, a)
        \/ \E n \in ExitWithdrawInputs(u) : withdraw_liquidity(u, n, 0)
        \/ \E i \in ExitSwapInputs : swap(u, i[1], i[2], i[3], i[4], i[5])
        \/ \E i \in ExitResolutions : resolution(u, i[1], i[2], i[3], i[4])
        \/ settle_pool(u)
        \/ reset_circuit_breaker(u)

SpecExit == InitExit /\ [][NextExit]_vars

\* ------------------------------------------------------------------------
\* Recovery of the circuit breaker.  The breaker's post-flight check can
\* only newly hold on a pool one of whose sides is empty, so the initial
\* state is a pool seeded with DrainSeed whose whole YES reserve has been
\* bought: the state after seed_pool(alice, 2000), set_mint_authority and
\* the YES buys of 200, 219, 240, 264, 289, 318, 14 and 349 by bob at slot
\* 0, as the swap action above computes them.
\* ------------------------------------------------------------------------
DrainSeed == 2000

DrainedMarket ==
    [SeedPoolLedger(Market0, DrainSeed) EXCEPT
        !.lmsr_q_yes = 2000,
        !.pool_yes_reserve = 0,
        !.pool_collateral_reserve = 3843,
        !.accumulated_lp_fees = 16,
        !.fee_per_share_cumulative = 8000,
        !.insurance_pool_contribution = 4]

DrainedConfig == [Config0 EXCEPT !.lp_insurance_pool_balance = 4]

DrainedBal ==
    [ usdc |-> [u \in Users |-> IF u = Trader THEN 28107 ELSE 28000],
      yes |-> [u \in Users |-> IF u = Trader THEN 2000 ELSE 0],
      no |-> [u \in Users |-> 0],
      vault |-> 3863, global_yes |-> 0, global_no |-> 2001, team |-> 30,
      mint_authority |-> "market" ]

\* The clock 24 hours after slot 0.
ResetSlotPoints == {216000}

\* Sales of bob's YES back to the pool.
ResetSwapInputs == { <<300, 1, 1, 0, 0>>, <<350, 1, 1, 0, 0>> }

InitReset ==
    /\ market = DrainedMarket
    /\ config = DrainedConfig
    /\ lp = [u \in Users |->
                IF u = Authority
                THEN SeedPoolPosition(LPPosition0, Market0, DrainSeed, 0)
                ELSE LPPosition0]
    /\ bal = DrainedBal
    /\ slot = 0
    /\ last = NoAttempt
    /\ prev = NoAttempt
    /\ steps = 0
    /\ rejected = 0

NextReset ==
    \/ Advance(ResetSlotPoints)
    \/ \E i \in ResetSwapInputs : swap(Trader, i[1], i[2], i[3], i[4], i[5])
    \/ \E u \in Users :
        \/ add_liquidity(u, AddAmount)
        \/ \E n \in ExitWithdrawInputs(u) : withdraw_liquidity(u, n, 0)
        \/ reset_circuit_breaker(u)

SpecReset == InitReset /\ [][NextReset]_vars

\* ------------------------------------------------------------------------
\* Insurance: the seeded pool under several loss thresholds, with the
\* insurance switch on or off (config.rs: off by default).  bob buys YES
\* and sells it back; both trades leave the insurance share of the LP fee
\* in insurance_pool_contribution.  After resolution the LP withdraws under
\* the early-exit penalty, at a loss.
\* ------------------------------------------------------------------------
\* A YES buy large enough for the LP fee to leave an insurance share, and
\* the sale of all the trader's YES back to the pool.
InsureBuy == 640

InsureSwapInputs ==
    { <<InsureBuy, 0, 1, 0, 0>>, <<bal.yes[Trader], 1, 1, 0, 0>> }

\* insurance_loss_threshold_bps as the authority may have configured it:
\* the default, and two values the LP's loss reaches.
InsureThresholds == {100, 240, 1000}

\* What other markets have contributed to the global insurance pool.
InsureOtherMarkets == {0, 100}

InitInsure ==
    /\ market = SeedPoolLedger(Market0, SeedAmount)
    /\ \E t \in InsureThresholds, o \in InsureOtherMarkets, e \in BOOLEAN :
          config = [Config0 EXCEPT !.insurance_loss_threshold_bps = t,
                                   !.lp_insurance_pool_balance = o,
                                   !.insurance_pool_enabled = e]
    /\ lp = [u \in Users |->
                IF u = Authority
                THEN SeedPoolPosition(LPPosition0, Market0, SeedAmount,
                                      Now(ExitStart))
                ELSE LPPosition0]
    /\ bal = [UsdcIn(Bal0, Authority, SeedAmount) EXCEPT
                 !.global_yes = @ + SeedAmount,
                 !.global_no = @ + SeedAmount,
                 !.mint_authority = "market"]
    /\ slot = ExitStart
    /\ last = NoAttempt
    /\ prev = NoAttempt
    /\ steps = 0
    /\ rejected = 0

NextInsure ==
    \/ Advance(ExitSlotPoints)
    \/ \E i \in InsureSwapInputs : swap(Trader, i[1], i[2], i[3], i[4], i[5])
    \/ \E u \in Users :
        \/ \E i \in ExitResolutions : resolution(u, i[1], i[2], i[3], i[4])
        \/ \E n \in ExitWithdrawInputs(u) : withdraw_liquidity(u, n, 0)

SpecInsure == InitInsure /\ [][NextInsure]_vars

\* The same market with configure calls whose new_config differs from the
\* current one in lp_insurance_pool_balance: the value the caller read
\* earlier, or the zero of a freshly built Config.
reconfigure(caller, balance) ==
    /\ steps < MaxSteps
    /\ Commit("configure", <<caller, config.usdc_vault_min_balance>>,
              ConfigureWrite(caller,
                  [config EXCEPT !.lp_insurance_pool_balance = balance]))

NextLedger ==
    \/ NextInsure
    \/ \E u \in Users, o \in InsureOtherMarkets : reconfigure(u, o)

SpecLedger == InitInsure /\ [][NextLedger]_vars

\* ------------------------------------------------------------------------
\* The end of a market: complete sets of one unit and of SetAmount, a pool
\* that may or may not have been seeded, resolution, settlement, claims and
\* the sweep of what the vault still holds.
\* ------------------------------------------------------------------------
DustSet == 1

NextDust ==
    \/ Tick
    \/ \E u \in Users :
        \/ seed_pool(u, SeedAmount)
        \/ \E a \in {DustSet, SetAmount} : mint_complete_set(u, a)
        \/ \E i \in ResolutionInputs : resolution(u, i[1], i[2], i[3], i[4])
        \/ settle_pool(u)
        \/ claim_rewards(u)
        \/ reclaim_dust(u)

SpecDust == Init /\ [][NextDust]_vars

\* ------------------------------------------------------------------------
\* Winding a market down.  From the seeded pool: trades, the resolution and
\* settle_pool, within MaxSteps; once the pool is settled, the rewards
\* claims, fee claims and withdrawals that succeed, as many as the market
\* allows.  A rejected instruction leaves the accounts untouched, so the
\* wind-down takes the successful ones only; every withdrawal lowers
\* total_lp_shares, which keeps the reachable states finite.
\* ------------------------------------------------------------------------
WindDown(op, args, r) ==
    /\ market.pool_settled
    /\ r.err = "Ok"
    /\ market' = r.market
    /\ config' = r.config
    /\ lp' = r.lp
    /\ bal' = r.bal
    /\ last' = [ op |-> op, err |-> r.err, args |-> args, pre |-> market,
                 pre_bal |-> bal, pre_slot |-> slot,
                 exit |-> ExitOf(r.mem) ]
    /\ prev' = NoAttempt
    /\ UNCHANGED <<slot, steps, rejected>>

NextWind ==
    \/ Advance(ExitSlotPoints)
    \/ \E u \in Users :
        \/ \E i \in ExitSwapInputs : swap(u, i[1], i[2], i[3], i[4], i[5])
        \/ \E i \in ExitResolutions : resolution(u, i[1], i[2], i[3], i[4])
        \/ settle_pool(u)
        \/ reset_circuit_breaker(u)
        \/ WindDown("claim_rewards", <<u>>, ClaimRewardsResult(u))
        \/ WindDown("claim_lp_fees", <<u>>, ClaimLpFeesResult(u))
        \/ \E n \in {WithdrawCap(market), lp[u].lp_shares} :
              WindDown("withdraw_liquidity", <<u, n, 0>>,
                       WithdrawLiquidityResult(u, n, 0))

SpecWind == InitExit /\ [][NextWind]_vars /\ WF_vars(NextWind)

\* ------------------------------------------------------------------------
\* LP fee accounting: swaps, adds, withdrawals and fee claims by two users
\* on the seeded pool.
\* ------------------------------------------------------------------------
NextFees ==
    \/ Advance(ExitSlotPoints)
    \/ \E u \in Users :
        \/ \E a \in {AddAmount, ReAddAmount} : add_liquidity(u, a)
        \/ \E n \in ExitWithdrawInputs(u) : withdraw_liquidity(u, n, 0)
        \/ \E i \in ExitSwapInputs : swap(u, i[1], i[2], i[3], i[4], i[5])
        \/ claim_lp_fees(u)

SpecFees == InitExit /\ [][NextFees]_vars

\* ------------------------------------------------------------------------
\* A guard held across instructions: a holder takes a flag with
\* ReentrancyGuard::new and is suspended inside its scope while the guarded
\* handlers are entered on the seeded pool; the holder's scope exit drops
\* the guard (market.rs test_reentrancy_protection: guard1, guard2, drop,
\* guard3).
\* ------------------------------------------------------------------------
GuardFlags ==
    {"swap_in_progress", "add_liquidity_in_progress", "withdraw_in_progress",
     "claim_in_progress"}

GuardEnterResult(flag) ==
    IF ReentrancyHeld(market, flag) THEN Fail("ReentrancyDetected", market)
    ELSE Done(ReentrancyGuardNew(market, flag), config, lp, bal)

guard_enter(flag) ==
    /\ steps < MaxSteps
    /\ Commit("guard_enter", <<flag>>, GuardEnterResult(flag))

guard_exit(flag) ==
    /\ steps < MaxSteps
    /\ market[flag]
    /\ Commit("guard_exit", <<flag>>,
              Done(ReentrancyGuardDrop(market, flag), config, lp, bal))

NextGuard ==
    \/ \E flag \in GuardFlags :
        \/ guard_enter(flag)
        \/ guard_exit(flag)
    \/ \E u \in Users :
        \/ add_liquidity(u, AddAmount)
        \/ \E n \in ExitWithdrawInputs(u) : withdraw_liquidity(u, n, 0)
        \/ \E i \in ExitSwapInputs : swap(u, i[1], i[2], i[3], i[4], i[5])
        \/ claim_rewards(u)
        \/ claim_lp_fees(u)

SpecGuard == InitExit /\ [][NextGuard]_vars

\* ------------------------------------------------------------------------
\* The multi-flag guard.  Single guards are taken and released by outer
\* frames; a MultiReentrancyGuard lives for the scope that acquired it and
\* drops at its end.  While it is live the nested acquisitions modelled are
\* those requesting one of its flags.
\* ------------------------------------------------------------------------
MultiLive == last.op = "multi_enter" /\ last.err = "Ok"

MultiEnterResult(flags) ==
    IF ~(Cardinality(flags) <= 8) THEN Fail("InvalidParameter", market)
    ELSE IF MultiHeld(market, flags) THEN Fail("ReentrancyDetected", market)
    ELSE Done(MultiReentrancyGuardNew(market, flags), config, lp, bal)

multi_enter(flags) ==
    /\ steps < MaxSteps
    /\ MultiLive => flags \cap last.args[1] # {}
    /\ Commit("multi_enter", <<flags>>, MultiEnterResult(flags))

multi_drop ==
    /\ steps < MaxSteps
    /\ MultiLive
    /\ Commit("multi_drop", last.args,
              Done(MultiReentrancyGuardDrop(market, last.args[1]),
                   config, lp, bal))

NextMulti ==
    \/ \E flag \in GuardFlags :
        \/ ~MultiLive /\ guard_enter(flag)
        \/ ~MultiLive /\ guard_exit(flag)
    \/ \E flags \in SUBSET GuardFlags : multi_enter(flags)
    \/ multi_drop

SpecMulti == InitExit /\ [][NextMulti]_vars

\* ------------------------------------------------------------------------
\* The LMSR pricing functions on their own: a state (b, q_yes, q_no) drawn
\* from positions of either sign, then purchases priced by lmsr_buy_cost and
\* sales priced by lmsr_sell_payout at the same b, each moving the position
\* by the amount traded.  last.args holds <<amount, is_yes, price>> and prev
\* the call before it.
\* ------------------------------------------------------------------------
LmsrB == 100000

LmsrPositions == {0 - 5000, 0 - 1000, 0, 1000, 5000}

LmsrAmounts == {1000, 3000}

InitLmsr ==
    /\ \E qy \in LmsrPositions, qn \in LmsrPositions :
          market = [Market0 EXCEPT !.lmsr_b = LmsrB, !.lmsr_q_yes = qy,
                                   !.lmsr_q_no = qn]
    /\ config = Config0
    /\ lp = [u \in Users |-> LPPosition0]
    /\ bal = Bal0
    /\ slot = 0
    /\ last = NoAttempt
    /\ prev = NoAttempt
    /\ steps = 0
    /\ rejected = 0

\* One pricing call and the move of the position it prices.
LmsrCall(op, amount, is_yes, price, q_yes, q_no) ==
    /\ steps < MaxSteps
    /\ market' = [market EXCEPT !.lmsr_q_yes = q_yes, !.lmsr_q_no = q_no]
    /\ last' = [ op |-> op, err |-> "Ok", args |-> <<amount, is_yes, price>>,
                 pre |-> market, pre_bal |-> bal, pre_slot |-> slot,
                 exit |-> ExitOf(market) ]
    /\ prev' = last
    /\ steps' = steps + 1
    /\ UNCHANGED <<config, lp, bal, slot, rejected>>

LmsrBuy(amount, is_yes) ==
    LmsrCall("lmsr_buy_cost", amount, is_yes,
             lmsr_buy_cost(market.lmsr_b, market.lmsr_q_yes,
                           market.lmsr_q_no, amount, is_yes),
             IF is_yes THEN market.lmsr_q_yes + amount ELSE market.lmsr_q_yes,
             IF is_yes THEN market.lmsr_q_no ELSE market.lmsr_q_no + amount)

LmsrSell(amount, is_yes) ==
    LmsrCall("lmsr_sell_payout", amount, is_yes,
             lmsr_sell_payout(market.lmsr_b, market.lmsr_q_yes,
                              market.lmsr_q_no, amount, is_yes),
             IF is_yes THEN market.lmsr_q_yes - amount ELSE market.lmsr_q_yes,
             IF is_yes THEN market.lmsr_q_no ELSE market.lmsr_q_no - amount)

NextLmsr ==
    \E amount \in LmsrAmounts, is_yes \in BOOLEAN :
        \/ LmsrBuy(amount, is_yes)
        \/ LmsrSell(amount, is_yes)

SpecLmsr == InitLmsr /\ [][NextLmsr]_vars

\* ------------------------------------------------------------------------
\* Properties
\* ------------------------------------------------------------------------
RECURSIVE SumShares(_)
SumShares(S) ==
    IF S = {} THEN 0
    ELSE LET u == CHOOSE x \in S : TRUE
         IN  lp[u].lp_shares + SumShares(S \ {u})

IsSwap == last.op = "swap"

IsBuy == IsSwap /\ last.args[3] = 0

\* last was a buy of the side that had the larger q when it was submitted.
IsMajorityBuy == IsBuy /\ last.args[4] = MajoritySide(last.pre)

\* The b in force during the last instruction.
EffectiveBThen == calculate_effective_lmsr_b(last.pre, last.pre_slot)

\* C1: in every reachable state the vault's collateral balance is at least
\* pool_collateral_reserve + total_collateral_locked + accumulated_lp_fees.
C1_VaultCoversLedgers ==
    bal.vault >= market.pool_collateral_reserve
                   + market.total_collateral_locked
                   + market.accumulated_lp_fees

\* C2: the lp_shares of all LP positions sum to market.total_lp_shares after
\* any sequence of seed_pool, add_liquidity and withdraw_liquidity.
C2_SharesSum == SumShares(Users) = market.total_lp_shares

\* C2 witness: a withdrawal succeeded while two LPs hold shares.
C2_Witness ==
    /\ last.op = "withdraw_liquidity" /\ last.err = "Ok"
    /\ \A u \in Users : lp[u].lp_shares > 0

\* C3: after every instruction, accepted or rejected, the four reentrancy
\* flags are false, both in the stored market and in the handler's copy at
\* the moment it returned.
C3_FlagsClear ==
    /\ ~market.swap_in_progress /\ ~market.add_liquidity_in_progress
    /\ ~market.withdraw_in_progress /\ ~market.claim_in_progress
    /\ ~last.exit.swap_in_progress /\ ~last.exit.add_liquidity_in_progress
    /\ ~last.exit.withdraw_in_progress /\ ~last.exit.claim_in_progress

\* C3 witness: a swap was rejected after it had taken its guard.
C3_Witness ==
    IsSwap /\ last.err \in {"TradeSizeTooLarge", "SlippageExceeded"}

\* C4: after any swap attempt, accepted or rejected, lmsr_b is what it was
\* before the attempt, in the stored market and in the handler's copy.
C4_BRestored ==
    IsSwap => /\ market.lmsr_b = last.pre.lmsr_b
              /\ last.exit.lmsr_b = last.pre.lmsr_b

\* C4 witness: a swap ran under an effective b different from the stored one
\* and was rejected inside the closure.
C4_Witness ==
    /\ IsSwap /\ last.err = "SlippageExceeded"
    /\ EffectiveBThen # last.pre.lmsr_b

\* C8: a successful mint_complete_set(amount) directly followed by
\* redeem_complete_set(amount) of the same user succeeds and restores the
\* three settlement counters, the vault and the user's three balances.
C8_MintRedeemRoundTrip ==
    (/\ prev.op = "mint_complete_set" /\ prev.err = "Ok"
     /\ last.op = "redeem_complete_set" /\ last.args = prev.args)
    => LET u == last.args[1]
       IN  /\ last.err = "Ok"
           /\ market.total_collateral_locked
                = prev.pre.total_collateral_locked
           /\ market.total_yes_minted = prev.pre.total_yes_minted
           /\ market.total_no_minted = prev.pre.total_no_minted
           /\ bal.vault = prev.pre_bal.vault
           /\ bal.usdc[u] = prev.pre_bal.usdc[u]
           /\ bal.yes[u] = prev.pre_bal.yes[u]
           /\ bal.no[u] = prev.pre_bal.no[u]

\* C8 witness: the round trip ran on a seeded market.
C8_Witness ==
    /\ prev.op = "mint_complete_set" /\ prev.err = "Ok"
    /\ last.op = "redeem_complete_set" /\ last.args = prev.args
    /\ last.err = "Ok"
    /\ market.pool_collateral_reserve > 0

\* The checks of the swap handler and of Market::swap that run before the
\* hard cap report these errors.
BeforeHardCap ==
    {"ContractPaused", "MarketPaused", "TransactionExpired", "MarketEnded",
     "CurveAlreadyCompleted", "MarketBelowMinLiquidity",
     "InvalidTradeDirection", "InvalidTokenType", "MarketNotStarted",
     "TradeSizeTooLarge"}

\* last was a majority-side buy submitted during the market's life.
IsLiveMajorityBuy ==
    IsMajorityBuy /\ last.pre_slot < last.pre.ending_slot

\* C5 (as stated): a majority-side buy submitted while |q_yes - q_no| is at
\* least twice the stored lmsr_b is rejected with PoolTooImbalanced at every
\* stage of the market's life.
C5_StoredBHardCap ==
    (IsLiveMajorityBuy /\ Imbalance(last.pre) >= 2 * last.pre.lmsr_b)
    => last.err = "PoolTooImbalanced"

\* C5 (amended): a majority-side buy submitted while |q_yes - q_no| is at
\* least twice the effective b of the current stage is rejected, and with
\* PoolTooImbalanced unless an earlier check rejects it first.
C5_EffectiveBHardCap ==
    (IsMajorityBuy
       /\ Imbalance(last.pre)
            >= MAX_POSITION_IMBALANCE_MULTIPLIER * EffectiveBThen)
    => last.err \in BeforeHardCap \cup {"PoolTooImbalanced"}

\* C5 witness: the hard cap rejected a buy in a stage whose effective b is
\* larger than the stored one.
C5_Witness ==
    /\ IsLiveMajorityBuy /\ last.err = "PoolTooImbalanced"
    /\ EffectiveBThen > last.pre.lmsr_b

\* C6 (as stated): after a successful majority-side buy |q_yes - q_no| is
\* strictly below twice the stored lmsr_b.
C6_StrictStoredBound ==
    (IsMajorityBuy /\ last.err = "Ok")
    => Imbalance(market) < 2 * market.lmsr_b

\* C6 (amended): after a successful majority-side buy |q_yes - q_no| is at
\* most twice the effective b that was in force during the trade.
C6_EffectiveBound ==
    (IsMajorityBuy /\ last.err = "Ok")
    => Imbalance(market)
         <= MAX_POSITION_IMBALANCE_MULTIPLIER * EffectiveBThen

\* C6 witness: a successful majority-side buy left the imbalance above twice
\* the stored lmsr_b.
C6_Witness ==
    /\ IsMajorityBuy /\ last.err = "Ok"
    /\ Imbalance(market) > 2 * market.lmsr_b

\* C7: the Scenario C swap (lmsr_b = 1_000_000, q_yes - q_no = 1_900_000,
\* buy YES with amount = 100_000) is rejected with PoolTooImbalanced.
C7_ScenarioC ==
    (/\ IsBuy /\ last.args[2] = 100000 /\ last.args[4] = 1
     /\ last.pre.lmsr_b = 1000000
     /\ last.pre.lmsr_q_yes - last.pre.lmsr_q_no = 1900000
     /\ last.pre_slot = 0)
    => last.err = "PoolTooImbalanced"

\* C9: once the market is completed every redeem_complete_set is rejected,
\* and a successful instruction on a completed market lowers
\* total_collateral_locked only if it is claim_rewards.
C9_NoRedeemAfterCompletion ==
    /\ (last.op = "redeem_complete_set" /\ last.pre.is_completed)
         => last.err = "CurveAlreadyCompleted"
    /\ (/\ last.pre.is_completed /\ last.err = "Ok"
        /\ market.total_collateral_locked
             < last.pre.total_collateral_locked)
         => last.op = "claim_rewards"

\* C9 witness: a holder of complete sets was refused redemption on a
\* completed market.
C9_Witness ==
    /\ last.op = "redeem_complete_set" /\ last.pre.is_completed
    /\ last.err = "CurveAlreadyCompleted"
    /\ last.pre_bal.yes[last.args[1]] >= last.args[2]
    /\ last.pre_bal.no[last.args[1]] >= last.args[2]

\* C10 (as stated): every successful resolution leaves the market completed.
C10_AlwaysCompleted ==
    (last.op = "resolution" /\ last.err = "Ok") => market.is_completed

\* C10 (amended): every successful resolution records the winner and the
\* two ratios it was given, and completes the market exactly when it was
\* called with is_completed = true.
C10_CompletedAsRequested ==
    (last.op = "resolution" /\ last.err = "Ok")
    => /\ market.resolution_yes_ratio = last.args[2]
       /\ market.resolution_no_ratio = last.args[3]
       /\ market.winner_token_type = last.args[4]
       /\ market.is_completed = (last.pre.is_completed \/ last.args[5])

\* C10 witness: a resolution called with is_completed = false succeeded.
C10_Witness ==
    /\ last.op = "resolution" /\ last.err = "Ok"
    /\ ~last.args[5] /\ ~market.is_completed

\* The user of the last instruction, and what they held before it.
LastUser == last.args[1]

HeldYes == last.pre_bal.yes[LastUser]

HeldNo == last.pre_bal.no[LastUser]

\* yes_balance * yes_ratio / 10000 + no_balance * no_ratio / 10000
ResolvedFunds ==
    (HeldYes * last.pre.resolution_yes_ratio) \div BASIS_POINTS_DIVISOR
      + (HeldNo * last.pre.resolution_no_ratio) \div BASIS_POINTS_DIVISOR

IsHolderClaim ==
    /\ last.op = "claim_rewards"
    /\ last.pre.is_completed
    /\ (HeldYes > 0 \/ HeldNo > 0)

\* C11: on a completed market, paused or not, claim_rewards by a user who
\* holds YES or NO succeeds and pays yes*yes_ratio/10000 + no*no_ratio/10000.
C11_ClaimAlwaysPays ==
    IsHolderClaim =>
        /\ last.err = "Ok"
        /\ bal.usdc[LastUser] = last.pre_bal.usdc[LastUser] + ResolvedFunds

\* A withdraw_liquidity attempt within the dynamic cap on a market that
\* resolution and settle_pool have marked completed and pool_settled.
IsSettledWithdraw ==
    /\ last.op = "withdraw_liquidity"
    /\ last.pre.is_completed
    /\ last.pre.pool_settled
    /\ last.args[2] > 0
    /\ last.args[2] <= WithdrawCap(last.pre)

\* C12: once a market is completed and pool_settled, a withdraw_liquidity
\* within the dynamic cap is not rejected by the completed-market limit
\* (InsufficientLiquidity) nor by the circuit breaker (its gate or its
\* pre-flight check).
C12_SettledWithdrawUnlocked ==
    IsSettledWithdraw =>
        last.err \notin { "InsufficientLiquidity", "CircuitBreakerTriggered",
                          "WouldTriggerCircuitBreaker" }

\* A withdraw_liquidity attempt on a market whose circuit breaker is active.
IsBreakerWithdraw ==
    /\ last.op = "withdraw_liquidity"
    /\ last.pre.circuit_breaker_active

\* The attempt passes every check that withdraw_liquidity makes before the
\* breaker gate: mint authority, position, pauses, amount, pool shares and
\* the completed-market limit.  A rejected attempt leaves lp as it was.
PassesEarlierChecks ==
    /\ last.pre_bal.mint_authority = "market"
    /\ last.args[2] > 0
    /\ lp[last.args[1]].lp_shares >= last.args[2]
    /\ ~last.pre.market_paused
    /\ ~config.is_paused
    /\ last.pre.total_lp_shares > 0
    /\ ~(/\ last.pre.is_completed
         /\ ~last.pre.pool_settled
         /\ last.pre.pool_collateral_reserve
              - MulDiv(last.args[2], last.pre.pool_collateral_reserve,
                       last.pre.total_lp_shares)
            < last.pre.total_collateral_locked)

\* circuit_breaker_active is cleared only by a successful
\* reset_circuit_breaker.
FlagStaysUntilReset ==
    (market.circuit_breaker_active /\ ~market'.circuit_breaker_active)
        => (last'.op = "reset_circuit_breaker" /\ last'.err = "Ok")

\* C13 as stated: while circuit_breaker_active is true every
\* withdraw_liquidity is rejected with CircuitBreakerTriggered, and the
\* flag stays true until a successful reset_circuit_breaker.
C13_AlwaysBreakerError ==
    /\ [](IsBreakerWithdraw => last.err = "CircuitBreakerTriggered")
    /\ [][FlagStaysUntilReset]_vars

\* C13 amended: while circuit_breaker_active is true every
\* withdraw_liquidity is rejected, with CircuitBreakerTriggered whenever the
\* attempt passes the checks made before the gate, and the flag stays true
\* until a successful reset_circuit_breaker.
C13_BreakerBlocksWithdraw ==
    /\ [](IsBreakerWithdraw =>
            /\ last.err # "Ok"
            /\ PassesEarlierChecks => last.err = "CircuitBreakerTriggered")
    /\ [][FlagStaysUntilReset]_vars

C13_Witness ==
    /\ IsBreakerWithdraw
    /\ PassesEarlierChecks
    /\ last.err = "CircuitBreakerTriggered"
    /\ market.circuit_breaker_active

\* A reset_circuit_breaker attempt by the authority.
IsAuthorityReset ==
    /\ last.op = "reset_circuit_breaker"
    /\ last.args[1] = Authority

\* max(pool_yes, pool_no) / min(pool_yes, pool_no) < 3.5 before the attempt.
RatioBelowResetThreshold ==
    /\ Min(last.pre.pool_yes_reserve, last.pre.pool_no_reserve) > 0
    /\ 10 * Max(last.pre.pool_yes_reserve, last.pre.pool_no_reserve)
         < 35 * Min(last.pre.pool_yes_reserve, last.pre.pool_no_reserve)

ResetAllowed ==
    /\ last.pre.circuit_breaker_active
    /\ Now(last.pre_slot) - last.pre.circuit_breaker_triggered_at
         >= 24 * 3600
    /\ RatioBelowResetThreshold

\* C14: reset_circuit_breaker by the authority succeeds exactly when the
\* breaker is active, at least 24 hours have passed since it was triggered
\* and the pool ratio is strictly below 3.5; a successful reset clears the
\* flag and restarts the 24h withdrawal window.
C14_ResetExactlyWhenRecovered ==
    IsAuthorityReset =>
        /\ (last.err = "Ok") <=> ResetAllowed
        /\ last.err = "Ok" =>
              /\ ~market.circuit_breaker_active
              /\ market.withdraw_last_24h = 0
              /\ market.withdraw_tracking_start = Now(last.pre_slot)

C14_Witness ==
    /\ IsAuthorityReset
    /\ last.err = "Ok"
    /\ ResetAllowed
    /\ ~market.circuit_breaker_active

\* The shares the caller's position held before the last withdraw_liquidity.
SharesBefore ==
    lp[last.args[1]].lp_shares
        + (IF last.err = "Ok" THEN last.args[2] ELSE 0)

\* A withdraw_liquidity attempt by an LP holding the requested shares, on an
\* unpaused market whose circuit breaker is inactive.
IsOpenWithdraw ==
    /\ last.op = "withdraw_liquidity"
    /\ last.args[2] > 0
    /\ SharesBefore >= last.args[2]
    /\ ~last.pre.market_paused
    /\ ~config.is_paused
    /\ ~last.pre.circuit_breaker_active

\* C15: such a withdrawal of exactly the dynamic cap succeeds, and one of
\* cap + 1 shares fails.
C15_CapSucceedsCapPlusOneFails ==
    IsOpenWithdraw =>
        /\ last.args[2] = WithdrawCap(last.pre) => last.err = "Ok"
        /\ last.args[2] = WithdrawCap(last.pre) + 1 => last.err # "Ok"

\* The breaker conditions on a pool: ratio >= 4:1 (an empty side counts as
\* such a ratio when one_sided says so), a side below 10% of its initial
\* reserve, 24h withdrawals above half the pool value.
TripsOn(yes, no, usdc, withdrawn_24h, one_sided) ==
    \/ IF Min(yes, no) > 0 THEN Max(yes, no) >= 4 * Min(yes, no)
       ELSE one_sided
    \/ 10 * yes < last.pre.initial_yes_reserve
    \/ 10 * no < last.pre.initial_no_reserve
    \/ 2 * withdrawn_24h > usdc + yes + no

\* The pool a rejected withdraw_liquidity would have left, from the market
\* before it: proportional shares, pairing, the internal sale of the
\* leftover side, penalty and insurance.  A rejected attempt leaves lp and
\* config as they were.
ProjectedTrips(g, user, n, now) ==
    LET usdc_share == calculate_proportional_share(
                          g.pool_collateral_reserve, n, g.total_lp_shares)
        yes_share == calculate_proportional_share(
                         g.pool_yes_reserve, n, g.total_lp_shares)
        no_share == calculate_proportional_share(
                        g.pool_no_reserve, n, g.total_lp_shares)
        paired == Min(yes_share, no_share)
        leftover_yes == yes_share - paired
        leftover_no == no_share - paired
    IN  Bind(IF leftover_yes > 0 \/ leftover_no > 0
             THEN InternalSell(g, IF leftover_yes > 0 THEN leftover_yes
                                  ELSE leftover_no, leftover_yes > 0)
             ELSE [err |-> "Ok", m |-> g, out |-> 0], LAMBDA sale :
        Bind(usdc_share + paired + sale.out, LAMBDA gross :
        Bind(gross - (gross * EarlyExitPenaltyBps(now - lp[user].created_at))
                        \div BASIS_POINTS_DIVISOR, LAMBDA after_penalty :
        Bind(after_penalty
               + InsuranceCompensation(
                     g, after_penalty,
                     calculate_proportional_share(
                         lp[user].invested_usdc, n, g.total_lp_shares)),
             LAMBDA final_usdc_out :
            TripsOn(sale.m.pool_yes_reserve - paired,
                    sale.m.pool_no_reserve - paired,
                    sale.m.pool_collateral_reserve - usdc_share - paired,
                    IF now - g.withdraw_tracking_start >= 86400
                    THEN final_usdc_out
                    ELSE g.withdraw_last_24h + final_usdc_out,
                    TRUE)))))

\* The state right after a withdraw_liquidity attempt.
JustWithdrew ==
    /\ last.op = "withdraw_liquidity"
    /\ slot = last.pre_slot

\* C16: withdraw_liquidity is rejected with WouldTriggerCircuitBreaker
\* exactly when a breaker condition would hold on the true pool after the
\* withdrawal: a rejected withdrawal would have left a pool on which one
\* holds, and a withdrawal that went through left a pool on which none does.
C16_PreflightOnTruePool ==
    JustWithdrew =>
        /\ last.err = "WouldTriggerCircuitBreaker" =>
              ProjectedTrips(last.pre, last.args[1], last.args[2],
                             Now(last.pre_slot))
        /\ last.err = "Ok" =>
              ~TripsOn(market.pool_yes_reserve, market.pool_no_reserve,
                       market.pool_collateral_reserve,
                       market.withdraw_last_24h, FALSE)

\* A breaker condition holds in the state a withdrawal left; a pool with an
\* empty side has no finite ratio and counts as beyond 4:1.
TripsNow ==
    TripsOn(market.pool_yes_reserve, market.pool_no_reserve,
            market.pool_collateral_reserve, market.withdraw_last_24h, TRUE)

\* C17: after a successful withdraw_liquidity, if a breaker condition holds
\* in the resulting state the breaker is active and triggered_at is the time
\* of that withdrawal; if none holds, the breaker is not active.
C17_PostFlightActivation ==
    (JustWithdrew /\ last.err = "Ok") =>
        /\ TripsNow =>
              /\ market.circuit_breaker_active
              /\ market.circuit_breaker_triggered_at = Now(last.pre_slot)
        /\ ~TripsNow => ~market.circuit_breaker_active

C17_Witness ==
    /\ JustWithdrew
    /\ last.err = "Ok"
    /\ TripsNow
    /\ ~last.pre.circuit_breaker_active
    /\ market.circuit_breaker_active
    /\ market.circuit_breaker_triggered_at = Now(last.pre_slot)
    /\ Now(last.pre_slot) > 0

\* The position of u has received shares at some time: it holds shares, or
\* carries the timestamp of an earlier add.
HasReceivedShares(u) == lp[u].lp_shares > 0 \/ lp[u].created_at # 0

\* C18: once a position has received shares, no add_liquidity or
\* withdraw_liquidity changes its created_at, so the early-exit penalty is
\* always computed from the time of the first add.
C18_CreatedAtNeverReset ==
    [][\A u \in Users :
          HasReceivedShares(u) => lp'[u].created_at = lp[u].created_at]_vars

\* What the withdrawal of n shares returns to user before insurance:
\* proportional collateral, the paired sets, the proceeds of the leftover
\* side, less the early-exit penalty.
WithdrawAfterPenalty(g, user, n, now) ==
    LET usdc_share == calculate_proportional_share(
                          g.pool_collateral_reserve, n, g.total_lp_shares)
        yes_share == calculate_proportional_share(
                         g.pool_yes_reserve, n, g.total_lp_shares)
        no_share == calculate_proportional_share(
                        g.pool_no_reserve, n, g.total_lp_shares)
        paired == Min(yes_share, no_share)
        leftover_yes == yes_share - paired
        leftover_no == no_share - paired
    IN  Bind(IF leftover_yes > 0 \/ leftover_no > 0
             THEN InternalSell(g, IF leftover_yes > 0 THEN leftover_yes
                                  ELSE leftover_no, leftover_yes > 0)
             ELSE [err |-> "Ok", m |-> g, out |-> 0], LAMBDA sale :
        Bind(usdc_share + paired + sale.out, LAMBDA gross :
            gross - (gross * EarlyExitPenaltyBps(now - lp[user].created_at))
                      \div BASIS_POINTS_DIVISOR))

\* A step in which withdraw_liquidity went through with insurance enabled.
IsInsuredWithdrawStep ==
    /\ last'.op = "withdraw_liquidity"
    /\ last'.err = "Ok"
    /\ steps' = steps + 1
    /\ config.insurance_pool_enabled

\* The part of what the user received that is insurance compensation.
CompensationPaid ==
    bal'.usdc[last'.args[1]] - bal.usdc[last'.args[1]]
      - WithdrawAfterPenalty(market, last'.args[1], last'.args[2], Now(slot))

\* The withdrawn part of the user's invested_usdc.
InvestedShare ==
    calculate_proportional_share(lp[last'.args[1]].invested_usdc,
                                 last'.args[2], market.total_lp_shares)

\* The loss of the withdrawal: invested part minus what it returns.
WithdrawLoss ==
    InvestedShare
      - WithdrawAfterPenalty(market, last'.args[1], last'.args[2], Now(slot))

\* C19: with insurance enabled, a withdrawal whose loss_bps is at or above
\* insurance_loss_threshold_bps (equality included) is paid
\* min(loss * insurance_max_compensation_bps / 10000, global insurance pool
\* balance, the market's insurance_pool_contribution); one below the
\* threshold is paid 0.
C19_CompensationFromThreshold ==
    [][IsInsuredWithdrawStep =>
        IF WithdrawLoss > 0
           /\ (WithdrawLoss * BASIS_POINTS_DIVISOR) \div InvestedShare
                 >= config.insurance_loss_threshold_bps
        THEN CompensationPaid =
               Min(Min((WithdrawLoss * config.insurance_max_compensation_bps)
                          \div BASIS_POINTS_DIVISOR,
                       config.lp_insurance_pool_balance),
                   market.insurance_pool_contribution)
        ELSE CompensationPaid = 0]_vars

\* C20: a withdrawal that pays insurance compensation c has c at most the
\* market's insurance_pool_contribution before it, and lowers the global
\* insurance pool balance and the market's insurance_pool_contribution by
\* exactly c in that one step.
C20_CompensationWithinContribution ==
    [][IsInsuredWithdrawStep /\ CompensationPaid > 0 =>
        /\ CompensationPaid <= market.insurance_pool_contribution
        /\ config'.lp_insurance_pool_balance
              = config.lp_insurance_pool_balance - CompensationPaid
        /\ market'.insurance_pool_contribution
              = market.insurance_pool_contribution - CompensationPaid]_vars

\* A withdrawal drew compensation from a global pool that holds more than
\* this market contributed.
C20_Witness ==
    /\ last.op = "withdraw_liquidity"
    /\ last.err = "Ok"
    /\ slot = last.pre_slot
    /\ market.insurance_pool_contribution
         < last.pre.insurance_pool_contribution
    /\ config.lp_insurance_pool_balance > market.insurance_pool_contribution

\* A step in which a swap went through.
IsSwapStep ==
    /\ last'.op = "swap"
    /\ last'.err = "Ok"
    /\ steps' = steps + 1

\* The platform fee of the swap of this step: on the input amount of a buy,
\* on the gross proceeds of a sell (what left pool_collateral_reserve).
StepPlatformFee ==
    IF last'.args[3] = 0
    THEN (last'.args[2] * config.platform_buy_fee) \div BASIS_POINTS_DIVISOR
    ELSE ((market.pool_collateral_reserve - market'.pool_collateral_reserve)
            * config.platform_sell_fee) \div BASIS_POINTS_DIVISOR

\* C21: with insurance_pool_enabled false, a swap leaves the global
\* insurance pool balance and the market's insurance_pool_contribution
\* unchanged, and the team wallet receives the whole platform fee.
C21_NoInsuranceShareWhenDisabled ==
    [][IsSwapStep /\ ~config.insurance_pool_enabled =>
        /\ config'.lp_insurance_pool_balance
              = config.lp_insurance_pool_balance
        /\ market'.insurance_pool_contribution
              = market.insurance_pool_contribution
        /\ bal'.team - bal.team = StepPlatformFee]_vars

\* The state right after a reclaim_dust attempt by the authority.
IsAuthorityReclaim ==
    /\ last.op = "reclaim_dust"
    /\ last.args[1] = Authority
    /\ slot = last.pre_slot

\* The market before the attempt was settled with every ledger counter at
\* zero.
LedgersCleared ==
    /\ last.pre.pool_settled
    /\ last.pre.total_collateral_locked = 0
    /\ last.pre.pool_collateral_reserve = 0
    /\ last.pre.accumulated_lp_fees = 0
    /\ last.pre.total_lp_shares = 0

\* C22 as stated: reclaim_dust by the authority succeeds exactly when the
\* market is settled and total_collateral_locked, pool_collateral_reserve,
\* accumulated_lp_fees and total_lp_shares are all zero.
C22_ReclaimIffCleared ==
    IsAuthorityReclaim => (last.err = "Ok" <=> LedgersCleared)

\* C22: reclaim_dust by the authority succeeds exactly when the market is
\* settled, the four ledger counters are zero and the vault is not empty;
\* it then moves the whole vault balance to the team wallet.
C22_ReclaimIffClearedAndFunded ==
    IsAuthorityReclaim =>
        /\ last.err = "Ok" <=> (LedgersCleared /\ last.pre_bal.vault > 0)
        /\ last.err = "Ok" =>
              /\ bal.vault = 0
              /\ bal.team = last.pre_bal.team + last.pre_bal.vault

\* The authority swept a vault that still held funds.
C22_Witness ==
    /\ IsAuthorityReclaim
    /\ last.err = "Ok"
    /\ bal.team > last.pre_bal.team

\* The four pool counters are all zero, now and after the step.
PoolAllZero ==
    /\ market.pool_yes_reserve = 0
    /\ market.pool_no_reserve = 0
    /\ market.pool_collateral_reserve = 0
    /\ market.total_lp_shares = 0

PoolAllZeroAfter ==
    /\ market'.pool_yes_reserve = 0
    /\ market'.pool_no_reserve = 0
    /\ market'.pool_collateral_reserve = 0
    /\ market'.total_lp_shares = 0

\* A step in which seed_pool or add_liquidity went through.
IsSeedingStep ==
    /\ last'.op \in {"seed_pool", "add_liquidity"}
    /\ last'.err = "Ok"
    /\ steps' = steps + 1

\* C23: pool_yes_reserve, pool_no_reserve, pool_collateral_reserve and
\* total_lp_shares are all zero exactly as long as the pool has never been
\* seeded: they are zero in the created market, stay zero through every
\* step that is not a successful seed_pool or add_liquidity, and are never
\* all zero again once one of those has gone through.
C23_ZeroIffNeverSeeded ==
    /\ PoolAllZero
    /\ [][PoolAllZeroAfter <=> (PoolAllZero /\ ~IsSeedingStep)]_vars

\* An LP has taken liquidity out of a seeded pool, which is not empty.
C23_Witness ==
    /\ last.op = "withdraw_liquidity"
    /\ last.err = "Ok"
    /\ slot = last.pre_slot
    /\ market.total_lp_shares > 0
    /\ market.total_lp_shares < last.pre.total_lp_shares

\* The last instruction was a swap, add_liquidity or withdraw_liquidity
\* submitted while the global config was paused.
IsPausedPoolAttempt ==
    /\ last.op \in {"swap", "add_liquidity", "withdraw_liquidity"}
    /\ config.is_paused

\* C24: while the global config is paused, every swap, add_liquidity and
\* withdraw_liquidity is rejected and leaves the market and every balance
\* as they were.
C24_PauseBlocksPoolOperations ==
    IsPausedPoolAttempt =>
        /\ last.err # "Ok"
        /\ market = last.pre
        /\ bal = last.pre_bal

\* A step in which an instruction was attempted.
IsAttempt == steps' # steps \/ rejected' # rejected

\* The LP fees the user of this step's instruction can claim.
ClaimableFees ==
    MulDiv(lp[last'.args[1]].lp_shares,
           market.fee_per_share_cumulative
             - lp[last'.args[1]].last_fee_per_share,
           FEE_PER_SHARE_PRECISION)

\* C25: while the global config is paused, claim_lp_fees by an LP with a
\* positive claimable amount succeeds and pays it.
C25_PauseSparesLpFeeClaims ==
    [][IsAttempt /\ last'.op = "claim_lp_fees" /\ config.is_paused
         /\ lp[last'.args[1]].lp_shares > 0 /\ ClaimableFees > 0 =>
        /\ last'.err = "Ok"
        /\ bal'.usdc[last'.args[1]]
              = bal.usdc[last'.args[1]] + ClaimableFees]_vars

\* The fees of the buy of this step, as the claim computes them.
BuyPlatformFee ==
    (last'.args[2] * config.platform_buy_fee) \div BASIS_POINTS_DIVISOR

BuyLpFee == (last'.args[2] * config.lp_buy_fee) \div BASIS_POINTS_DIVISOR

BuyInsuranceShare ==
    (BuyPlatformFee * config.lp_insurance_allocation_bps)
        \div BASIS_POINTS_DIVISOR

WithdrawGross(g, n) ==
    LET usdc_share == calculate_proportional_share(
                          g.pool_collateral_reserve, n, g.total_lp_shares)
        yes_share == calculate_proportional_share(
                         g.pool_yes_reserve, n, g.total_lp_shares)
        no_share == calculate_proportional_share(
                        g.pool_no_reserve, n, g.total_lp_shares)
        paired == Min(yes_share, no_share)
        leftover_yes == yes_share - paired
        leftover_no == no_share - paired
    IN  Bind(IF leftover_yes > 0 \/ leftover_no > 0
             THEN InternalSell(g, IF leftover_yes > 0 THEN leftover_yes
                                  ELSE leftover_no, leftover_yes > 0)
             ELSE [err |-> "Ok", m |-> g, out |-> 0], LAMBDA sale :
            usdc_share + paired + sale.out)

\* The rounding bound of the round trip, in USDC units.
RoundTripEpsilon == 2

\* The shares the add_liquidity just before this step issued.
SharesJustIssued == market.total_lp_shares - last.pre.total_lp_shares

\* This step is a withdraw_liquidity, by the LP whose add_liquidity has just
\* gone through, of all the shares that add issued.
IsRoundTripStep ==
    /\ IsAttempt
    /\ last.op = "add_liquidity"
    /\ last.err = "Ok"
    /\ slot = last.pre_slot
    /\ last'.op = "withdraw_liquidity"
    /\ last'.args[1] = last.args[1]
    /\ last'.args[2] = SharesJustIssued

IsLoserClaim ==
    /\ last.op = "claim_rewards"
    /\ slot = last.pre_slot
    /\ last.pre.is_completed
    /\ (HeldYes > 0 \/ HeldNo > 0)
    /\ HeldYes > 0 => last.pre.resolution_yes_ratio = 0
    /\ HeldNo > 0 => last.pre.resolution_no_ratio = 0

\* C28: such a claim succeeds, burns all of the user's tokens, moves no
\* collateral, leaves total_collateral_locked and pool_collateral_reserve
\* as they were and lowers the minted counters by the burnt amounts,
\* clamped at zero.
C28_LoserClaimBurnsForNothing ==
    IsLoserClaim =>
        /\ last.err = "Ok"
        /\ bal.yes[LastUser] = 0
        /\ bal.no[LastUser] = 0
        /\ bal.usdc = last.pre_bal.usdc
        /\ bal.vault = last.pre_bal.vault
        /\ market.total_collateral_locked = last.pre.total_collateral_locked
        /\ market.pool_collateral_reserve = last.pre.pool_collateral_reserve
        /\ market.total_yes_minted
              = last.pre.total_yes_minted
                  - Min(HeldYes, last.pre.total_yes_minted)
        /\ market.total_no_minted
              = last.pre.total_no_minted
                  - Min(HeldNo, last.pre.total_no_minted)

\* A holder of losing tokens has claimed.
C28_Witness ==
    /\ IsLoserClaim
    /\ last.err = "Ok"
    /\ HeldYes + HeldNo > 0
    /\ bal.yes[LastUser] + bal.no[LastUser] = 0

\* The last two pricing calls were a purchase and the sale of the same
\* amount of the same side, at the same b.
IsBuyThenSell ==
    /\ prev.op = "lmsr_buy_cost"
    /\ last.op = "lmsr_sell_payout"
    /\ last.args[1] = prev.args[1]
    /\ last.args[2] = prev.args[2]

\* C29: buying an amount and selling the same amount back at the same b,
\* with no trade in between, yields proceeds no greater than the cost.
C29_SellBackNeverGains ==
    IsBuyThenSell => last.args[3] <= prev.args[3]

\* The flag each guarded operation takes.
GuardFlag(op) ==
    CASE op = "swap" -> "swap_in_progress"
      [] op = "add_liquidity" -> "add_liquidity_in_progress"
      [] op = "withdraw_liquidity" -> "withdraw_in_progress"
      [] op \in {"claim_rewards", "claim_lp_fees"} -> "claim_in_progress"

GuardedOps ==
    {"swap", "add_liquidity", "withdraw_liquidity", "claim_rewards",
     "claim_lp_fees"}

\* The rejections a handler can issue before it reaches its guard.
EntryErrors(op) ==
    CASE op = "swap" ->
            {"ContractPaused", "MarketPaused", "TransactionExpired",
             "MarketEnded", "CurveAlreadyCompleted", "MarketBelowMinLiquidity",
             "InvalidTradeDirection", "InvalidTokenType", "InvalidAmount",
             "InvalidParameter"}
      [] op = "add_liquidity" -> {"MintAuthorityNotTransferred"}
      [] op = "withdraw_liquidity" ->
            {"MintAuthorityNotTransferred", "InsufficientBalance"}
      [] op = "claim_rewards" -> {}
      [] op = "claim_lp_fees" -> {"WITHDRAWNOTLPERROR"}

\* The last instruction was a guarded operation entered while its flag was
\* held.
IsHeldEntry ==
    /\ last.op \in GuardedOps
    /\ last.pre[GuardFlag(last.op)]

\* The last instruction was rejected by the guard and changed nothing.
RejectedByGuard ==
    /\ last.err = "ReentrancyDetected"
    /\ market = last.pre

C31_LedgerWithinPoolTokens ==
    /\ market.pool_yes_reserve <= bal.global_yes
    /\ market.pool_no_reserve <= bal.global_no

\* The last instruction was a resolution by the authority, with a valid
\* outcome and ratios, of an uncompleted market whose ending_slot had passed.
IsDueResolution ==
    /\ last.op = "resolution"
    /\ last.args[1] = Authority
    /\ ~last.pre.is_completed
    /\ last.pre_slot >= last.pre.ending_slot
    /\ last.args[4] \in {0, 1, 2}
    /\ ResolutionRatioError(last.args[2], last.args[3], last.args[4]) = "Ok"

\* C32: a market can always be resolved: a resolution by the authority of an
\* uncompleted market past its ending_slot, with a valid outcome and ratios,
\* succeeds in every reachable state.
C32_DueResolutionSucceeds ==
    IsDueResolution => last.err = "Ok"

\* The four ledgers reclaim_dust requires to be empty.
LedgersZero ==
    /\ market.total_lp_shares = 0
    /\ market.pool_collateral_reserve = 0
    /\ market.total_collateral_locked = 0
    /\ market.accumulated_lp_fees = 0

\* C33: a seeded market that has been resolved and settled can be wound
\* down: claims and withdrawals lead from it to a state where
\* total_lp_shares, pool_collateral_reserve, total_collateral_locked and
\* accumulated_lp_fees are all zero.
C33_SettledMarketEmpties ==
    market.pool_settled ~> LedgersZero

\* No wind-down empties the market: on a seeded market total_lp_shares
\* stays positive whatever is claimed or withdrawn.
SharesNeverWithdrawn ==
    market.total_lp_shares > 0

\* The recorded outcome of a market.
Outcome(m) ==
    <<m.winner_token_type, m.resolution_yes_ratio, m.resolution_no_ratio>>

\* A resolution has succeeded: the recorded ratios add up to 10000, as every
\* accepted triple does, where a fresh market holds 0 and 0.
Resolved(m) ==
    m.resolution_yes_ratio + m.resolution_no_ratio = BASIS_POINTS_DIVISOR

\* This step is a resolution that succeeds.
IsAcceptedResolution ==
    /\ steps' = steps + 1
    /\ last'.op = "resolution"
    /\ last'.err = "Ok"

\* C34: the outcome is written at most once: after the first successful
\* resolution no instruction changes winner, resolution_yes_ratio or
\* resolution_no_ratio, and no further resolution succeeds.
C34_OutcomeWrittenOnce ==
    [][Resolved(market) =>
          (Outcome(market') = Outcome(market) /\ ~IsAcceptedResolution)]_vars

WithdrawnShare(reserve) ==
    calculate_proportional_share(reserve, last.args[2],
                                 last.pre.total_lp_shares)

PairedSets ==
    Min(WithdrawnShare(last.pre.pool_yes_reserve),
        WithdrawnShare(last.pre.pool_no_reserve))

LeftoverYes == SatSub(WithdrawnShare(last.pre.pool_yes_reserve), PairedSets)

LeftoverNo == SatSub(WithdrawnShare(last.pre.pool_no_reserve), PairedSets)

\* The last instruction was a successful withdrawal that sold a leftover.
IsInternalSale ==
    /\ last.op = "withdraw_liquidity"
    /\ last.err = "Ok"
    /\ (LeftoverYes > 0 \/ LeftoverNo > 0)

\* The proceeds the internal sale paid out of pool_collateral_reserve.
InternalProceeds ==
    last.pre.pool_collateral_reserve - market.pool_collateral_reserve
      - WithdrawnShare(last.pre.pool_collateral_reserve) - PairedSets

\* C36: the internal sale of withdraw_liquidity leaves (lmsr_q_yes,
\* lmsr_q_no) where a user's swap sell of the same amount of the same side
\* from the same state leaves it, and pays the LMSR cost difference between
\* the stored position before and after.
C36_InternalSaleMovesAsSwapSell ==
    IsInternalSale =>
      LET sold == apply_sell(last.pre,
                             IF LeftoverYes > 0 THEN LeftoverYes
                             ELSE LeftoverNo,
                             IF LeftoverYes > 0 THEN 1 ELSE 0).m
      IN  /\ market.lmsr_q_yes = sold.lmsr_q_yes
          /\ market.lmsr_q_no = sold.lmsr_q_no
          /\ InternalProceeds
               = lmsr_cost(last.pre.lmsr_b, last.pre.lmsr_q_yes,
                           last.pre.lmsr_q_no)
                 - lmsr_cost(market.lmsr_b, market.lmsr_q_yes,
                             market.lmsr_q_no)

\* The last instruction was an add_liquidity of at least the minimum, by a
\* user holding the funds, on an open, unpaused market that already had
\* liquidity providers.
IsSubsequentAdd ==
    /\ last.op = "add_liquidity"
    /\ last.args[2] >= config.min_usdc_liquidity
    /\ last.pre_bal.usdc[last.args[1]] >= last.args[2]
    /\ last.pre_bal.mint_authority = "market"
    /\ last.pre.total_lp_shares > 0
    /\ ~last.pre.is_completed
    /\ ~last.pre.market_paused
    /\ ~config.is_paused
    /\ last.pre_slot < last.pre.ending_slot

\* C37: on an open, unpaused, seeded market an add_liquidity by a later
\* provider of any amount from the minimum up is accepted in every pool
\* state: the amounts derived always add up to the amount paid in.
C37_SubsequentAddAccepted ==
    IsSubsequentAdd => last.err = "Ok"

\* The LP fees a position could claim in the current state.
RECURSIVE SumClaimable(_)
SumClaimable(S) ==
    IF S = {} THEN 0
    ELSE LET u == CHOOSE x \in S : TRUE
         IN  MulDiv(lp[u].lp_shares,
                    market.fee_per_share_cumulative
                      - lp[u].last_fee_per_share,
                    FEE_PER_SHARE_PRECISION)
               + SumClaimable(S \ {u})

\* C38: in every reachable state the fees claimable by all LP positions
\* together are at most accumulated_lp_fees.
C38_ClaimableWithinAccumulated ==
    SumClaimable(Users) <= market.accumulated_lp_fees

C38_Witness ==
    /\ \A u \in Users : lp[u].lp_shares > 0
    /\ last.op = "claim_lp_fees"
    /\ last.err = "Ok"
    /\ market.accumulated_lp_fees < last.pre.accumulated_lp_fees
    /\ SumClaimable(Users) > 0

\* The part of the global insurance balance contributed by other markets.
OtherMarketsInsurance(c, m) ==
    c.lp_insurance_pool_balance - m.insurance_pool_contribution

\* C39: the global insurance pool balance and the market's
\* insurance_pool_contribution move together: no step changes the
\* difference between them, which is the contribution of the other markets.
C39_InsuranceLedgersMoveTogether ==
    [][OtherMarketsInsurance(config', market')
         = OtherMarketsInsurance(config, market)]_vars

\* C40: acquiring the multi-flag guard is all-or-nothing.  An acquisition
\* that finds one of the requested flags set fails with ReentrancyDetected
\* and changes no flag; one that finds them all clear succeeds and sets
\* every requested flag and no other; the drop of the guard clears every
\* flag it acquired and no other.
C40_MultiGuardAllOrNothing ==
    /\ last.op = "multi_enter" =>
          IF \E f \in last.args[1] : last.pre[f]
          THEN last.err = "ReentrancyDetected" /\ market = last.pre
          ELSE /\ last.err = "Ok"
               /\ \A f \in GuardFlags :
                     market[f] = (f \in last.args[1] \/ last.pre[f])
    /\ last.op = "multi_drop" =>
          /\ last.err = "Ok"
          /\ \A f \in GuardFlags :
                market[f] = (f \notin last.args[1] /\ last.pre[f])

\* C40 witness: a request for three flags, the last of which an outer frame
\* holds, was rejected and the other two are still clear.
C40_Witness ==
    /\ last.op = "multi_enter"
    /\ last.args[1]
          = {"swap_in_progress", "add_liquidity_in_progress",
             "withdraw_in_progress"}
    /\ Cardinality({f \in last.args[1] : last.pre[f]}) = 1
    /\ last.err = "ReentrancyDetected"
    /\ Cardinality({f \in GuardFlags : market[f]}) = 1
====
